---------------------------- MODULE Spec2Model ----------------------------
(***************************************************************************)
(* Tachyon backend: signed-URL / session authorization layer and the       *)
(* comic routes that use it.                                               *)
(*                                                                         *)
(* Text is a sequence of one-character strings, so that concatenation,     *)
(* substring search, splitting and number parsing are computed the way the *)
(* code computes them.  The HMAC-SHA256 digest is modelled as a            *)
(* collision-free keyed function: the digest of a message is the tagged    *)
(* message itself, and the secret never leaves the server.                 *)
(***************************************************************************)
EXTENDS Integers, Sequences, FiniteSets, TLC

VARIABLES
    now,            \* Math.floor(Date.now() / 1000): the clock in epoch seconds
    clientId,       \* process.env.OIDC_CLIENT_ID || '' (read by getOIDCConfig)
    fs,             \* COMICS_DIR: raw entry name -> number of image files in the folder,
                    \* NoEntry = no such entry, PlainFile = a file, not a folder
    COMICS_MAP,     \* scanner.ts: id -> ComicInfo
    COMICS_CACHE,   \* scanner.ts: the sorted array of ComicInfo
    jar,            \* the browser's tachyon_session cookie (NoCookie when none)
    held,           \* a credential a client kept from an earlier response, with what it was issued for
    last,           \* the last HTTP exchange: [req, resp]
    probe,          \* the last direct call of a signature/session function and its result
    spent,          \* the session token of the last completed logout (NoCookie when none)
    events          \* the watcher's events, oldest first, and how many of them were handled

vars == <<now, clientId, fs, COMICS_MAP, COMICS_CACHE, jar, held, last, probe, spent, events>>

---------------------------------------------------------------------------
(* Bounds of the model *)

\* clock values explored around each deadline: deadline + 0 .. deadline + MaxDrift
MaxDrift == 1
\* largest number of image files in one comic folder
MaxImages == 2
\* the longest folder name given to encodeId, in characters
MaxNameLen == 2

---------------------------------------------------------------------------
(* Program constants *)

\* generateSignedUrl / generateSignedCoverUrl default expiresInSeconds
UrlTtl == 31536000
\* OIDC callback: expiresAt = now + 7 * 24 * 60 * 60
SessionTtl == 604800

---------------------------------------------------------------------------
(* Text *)

Digits == <<"0", "1", "2", "3", "4", "5", "6", "7", "8", "9">>

IsDigit(c) == \E i \in 1..10 : Digits[i] = c

DigitVal(c) == (CHOOSE i \in 1..10 : Digits[i] = c) - 1

\* Number -> decimal string, as a template literal `${n}` prints an integer
RECURSIVE NatStr(_)
NatStr(n) == IF n < 10 THEN <<Digits[n + 1]>>
             ELSE NatStr(n \div 10) \o <<Digits[(n % 10) + 1]>>

NumStr(n) == IF n < 0 THEN <<"-">> \o NatStr(0 - n) ELSE NatStr(n)

IsPrefix(p, s) == Len(p) <= Len(s) /\ SubSeq(s, 1, Len(p)) = p

\* String.prototype.includes
Includes(s, sub) ==
    \E i \in 0..(Len(s) - Len(sub)) : SubSeq(s, i + 1, i + Len(sub)) = sub

\* JavaScript truthiness of a query/cookie value: null, undefined and "" are falsy
Absent == [t |-> "absent", v |-> <<>>]
Txt(s) == [t |-> "raw", v |-> s]
Truthy(x) == x.t # "absent" /\ (x.t \in {"raw", "b64"} => x.v # <<>>)

\* parseInt(s, 10): skip leading white space, an optional sign, then the longest
\* run of decimal digits; NaN when that run is empty.  Whatever follows the
\* digits is ignored.
NaN == [nan |-> TRUE, val |-> 0]
Num(n) == [nan |-> FALSE, val |-> n]

RECURSIVE SkipSpace(_)
SkipSpace(s) == IF s # <<>> /\ Head(s) = " " THEN SkipSpace(Tail(s)) ELSE s

RECURSIVE DigitRun(_)
DigitRun(s) == IF s # <<>> /\ IsDigit(Head(s)) THEN <<Head(s)>> \o DigitRun(Tail(s))
               ELSE <<>>

RECURSIVE DigitsVal(_)
DigitsVal(d) == IF d = <<>> THEN 0
                ELSE DigitsVal(SubSeq(d, 1, Len(d) - 1)) * 10 + DigitVal(d[Len(d)])

parseInt(s) ==
    LET t == SkipSpace(s)
        neg == t # <<>> /\ Head(t) = "-"
        u == IF t # <<>> /\ Head(t) \in {"-", "+"} THEN Tail(t) ELSE t
        d == DigitRun(u)
    IN  IF d = <<>> THEN NaN
        ELSE Num(IF neg THEN 0 - DigitsVal(d) ELSE DigitsVal(d))

\* parseInt of a query value (a missing value never reaches parseInt in the code)
parseIntOf(x) == IF x.t = "raw" THEN parseInt(x.v) ELSE NaN

---------------------------------------------------------------------------
(* Signature engine: auth.ts generateSignature / verifySignature *)

\* createHmac('sha256', SECRET_KEY).update(data).digest('base64url')
generateSignature(data) == [t |-> "mac", v |-> data]

\* expected === signature
verifySignature(data, signature) == generateSignature(data) = signature

\* a digest string with one byte changed, inserted or appended
Tampered(sig) == [t |-> "mac~", v |-> sig.v]

---------------------------------------------------------------------------
(* Capability URLs: auth.ts generateSignedUrl .. verifySignedUrl *)

Colon == <<":">>
CoverWord == <<"c", "o", "v", "e", "r">>

\* the page index left out of the signed text
PageDataNoPage(comicId, page, expires) == comicId \o Colon \o NumStr(expires)

\* `${comicId}:${page}:${expires}`
PageData(comicId, page, expires) ==
    comicId \o Colon \o NumStr(page) \o Colon \o NumStr(expires)

\* `${comicId}:cover:${expires}`
CoverData(comicId, expires) ==
    comicId \o Colon \o CoverWord \o Colon \o NumStr(expires)

\* the URL of the page after the one asked for
generateSignedUrlOneBased(comicId, page) ==
    LET expires == now + UrlTtl
    IN  [kind |-> "page", id |-> comicId, page |-> NumStr(page + 1),
         expires |-> Txt(NumStr(expires)),
         sig |-> generateSignature(PageData(comicId, page + 1, expires))]

\* A URL is kept as its parts: the path parameters and the two query values.
\* /api/comics/${comicId}/pages/${page}?expires=${expires}&sig=${sig}
generateSignedUrl(comicId, page) ==
    LET expires == now + UrlTtl
    IN  [kind |-> "page", id |-> comicId, page |-> NumStr(page),
         expires |-> Txt(NumStr(expires)),
         sig |-> generateSignature(PageData(comicId, page, expires))]

\* /api/comics/${comicId}/cover?expires=${expires}&sig=${sig}
generateSignedCoverUrl(comicId) ==
    LET expires == now + UrlTtl
    IN  [kind |-> "cover", id |-> comicId, page |-> <<>>,
         expires |-> Txt(NumStr(expires)),
         sig |-> generateSignature(CoverData(comicId, expires))]

\* a cover URL honoured only while its comic is in the index
verifySignedCoverUrlIndexed(comicId, expires, sig) ==
    LET expiresNum == parseIntOf(expires)
    IN  IF expiresNum.nan \/ expiresNum.val < now THEN FALSE
        ELSE /\ \E i \in 1..Len(COMICS_MAP) : COMICS_MAP[i].id = comicId
             /\ verifySignature(CoverData(comicId, expiresNum.val), sig)

verifySignedCoverUrl(comicId, expires, sig) ==
    LET expiresNum == parseIntOf(expires)
    IN  IF expiresNum.nan \/ expiresNum.val < now THEN FALSE
        ELSE verifySignature(CoverData(comicId, expiresNum.val), sig)

\* the deadline second itself already refused
verifySignedUrlEarly(comicId, page, expires, sig) ==
    LET expiresNum == parseIntOf(expires)
    IN  IF expiresNum.nan \/ expiresNum.val <= now THEN FALSE
        ELSE verifySignature(PageData(comicId, page, expiresNum.val), sig)

verifySignedUrl(comicId, page, expires, sig) ==
    LET expiresNum == parseIntOf(expires)
    IN  IF expiresNum.nan \/ expiresNum.val < now THEN FALSE
        ELSE verifySignature(PageData(comicId, page, expiresNum.val), sig)

---------------------------------------------------------------------------
(* Session codec: auth.ts generateSessionToken / verifySessionToken *)

\* SessionData is a function from the keys that are set to their values; a key
\* whose value is undefined is not in the domain.
KeyOrder == <<"userId", "email", "name", "avatar", "expiresAt">>

Quote == "\""

\* JSON.stringify of one member: "key":"value" or "key":123
Member(k, v) ==
    IF k = "expiresAt" THEN <<k, ":">> \o NumStr(v)
    ELSE <<k, ":", Quote, v, Quote>>

RECURSIVE Members(_, _, _)
Members(data, i, first) ==
    IF i > Len(KeyOrder) THEN <<>>
    ELSE LET k == KeyOrder[i]
         IN  IF k \in DOMAIN data
             THEN (IF first THEN <<>> ELSE <<",">>) \o Member(k, data[k])
                  \o Members(data, i + 1, FALSE)
             ELSE Members(data, i + 1, first)

\* JSON.stringify(data): members in insertion order, undefined members dropped
JSONStringify(data) == <<"{">> \o Members(data, 1, TRUE) \o <<"}">>

EmptyObject == [k \in {} |-> 0]
ParseFail == [ok |-> FALSE, obj |-> EmptyObject, rest |-> <<>>]

\* the members of a JSON object text, up to its closing brace
RECURSIVE ParseMembers(_, _)
ParseMembers(s, acc) ==
    IF Len(s) < 3 \/ s[2] # ":" THEN ParseFail
    ELSE LET k == s[1]
             isStr == s[3] = Quote
             digits == DigitRun(SubSeq(s, 3, Len(s)))
             used == IF isStr THEN 5 ELSE 2 + Len(digits)
             okVal == IF isStr THEN Len(s) >= 5 /\ s[5] = Quote ELSE digits # <<>>
             val == IF isStr THEN s[4] ELSE DigitsVal(digits)
             acc2 == [x \in (DOMAIN acc) \cup {k} |-> IF x = k THEN val ELSE acc[x]]
             rest == SubSeq(s, used + 1, Len(s))
         IN  IF ~okVal \/ rest = <<>> THEN ParseFail
             ELSE IF rest = <<"}">> THEN [ok |-> TRUE, obj |-> acc2, rest |-> <<>>]
             ELSE IF Head(rest) = "," THEN ParseMembers(Tail(rest), acc2)
             ELSE ParseFail

\* JSON.parse(text): an object, or a throw (ok = FALSE).  A text that is only
\* digits parses to a number, which has no members.
JSONParse(text) ==
    IF text = <<"{", "}">> THEN [ok |-> TRUE, obj |-> EmptyObject, rest |-> <<>>]
    ELSE IF text # <<>> /\ DigitRun(text) = text
         THEN [ok |-> TRUE, obj |-> EmptyObject, rest |-> <<>>]
    ELSE IF text # <<>> /\ Head(text) = "{" THEN ParseMembers(Tail(text), EmptyObject)
    ELSE ParseFail

\* Buffer.from(payload).toString('base64url'), kept as the tagged payload
Base64Text(payload) == [t |-> "b64", v |-> payload]

\* Buffer.from(part, 'base64url').toString('utf-8'); a part that is no encoding
\* of a text of the model decodes to bytes no text of the model equals
Undecodable == <<"?">>
Base64Decode(part) == IF part.t = "b64" THEN part.v ELSE Undecodable

\* A token is kept as the result of token.split('.'): the sequence of its
\* dot-free parts (a string with n dots has n + 1 parts).
generateSessionToken(data) ==
    LET payload == JSONStringify(data)
    IN  <<Base64Text(payload), generateSignature(payload)>>

NoSession == [null |-> TRUE, data |-> EmptyObject]

\* the expiry second itself already refused
verifySessionTokenEarly(token) ==
    LET payload == Base64Decode(token[1])
        parsed == JSONParse(payload)
    IN  IF Len(token) < 2 \/ ~Truthy(token[1]) \/ ~Truthy(token[2]) THEN NoSession
        ELSE IF ~verifySignature(payload, token[2]) \/ ~parsed.ok THEN NoSession
        ELSE IF "expiresAt" \in DOMAIN parsed.obj /\ parsed.obj["expiresAt"] <= now
             THEN NoSession
        ELSE [null |-> FALSE, data |-> parsed.obj]

verifySessionToken(token) ==
    LET payloadB64 == token[1]
        sig == IF Len(token) >= 2 THEN token[2] ELSE Absent
    IN  IF ~Truthy(payloadB64) \/ ~Truthy(sig) THEN NoSession
        ELSE LET payload == Base64Decode(payloadB64)
             IN  IF ~verifySignature(payload, sig) THEN NoSession
                 ELSE LET parsed == JSONParse(payload)
                      IN  IF ~parsed.ok THEN NoSession
                          ELSE IF "expiresAt" \in DOMAIN parsed.obj
                                  /\ parsed.obj["expiresAt"] < now
                               THEN NoSession
                          ELSE [null |-> FALSE, data |-> parsed.obj]

---------------------------------------------------------------------------
(* Identifiers: scanner.ts encodeId / decodeId.  A JavaScript string is kept *)
(* as its well-formed UTF-8 bytes; a folder name on disk is any byte string. *)

B64Alphabet ==
    <<"A", "B", "C", "D", "E", "F", "G", "H", "I", "J", "K", "L", "M",
      "N", "O", "P", "Q", "R", "S", "T", "U", "V", "W", "X", "Y", "Z",
      "a", "b", "c", "d", "e", "f", "g", "h", "i", "j", "k", "l", "m",
      "n", "o", "p", "q", "r", "s", "t", "u", "v", "w", "x", "y", "z",
      "0", "1", "2", "3", "4", "5", "6", "7", "8", "9", "-", "_">>

B64Char(n) == B64Alphabet[n + 1]
B64Val(c) == (CHOOSE i \in 1..64 : B64Alphabet[i] = c) - 1

\* Buffer.toString('base64url'): three bytes to four characters, no padding
RECURSIVE Base64UrlEncode(_)
Base64UrlEncode(b) ==
    IF Len(b) = 0 THEN <<>>
    ELSE IF Len(b) = 1
      THEN <<B64Char(b[1] \div 4), B64Char((b[1] % 4) * 16)>>
    ELSE IF Len(b) = 2
      THEN <<B64Char(b[1] \div 4), B64Char((b[1] % 4) * 16 + b[2] \div 16),
             B64Char((b[2] % 16) * 4)>>
    ELSE <<B64Char(b[1] \div 4), B64Char((b[1] % 4) * 16 + b[2] \div 16),
           B64Char((b[2] % 16) * 4 + b[3] \div 64), B64Char(b[3] % 64)>>
         \o Base64UrlEncode(SubSeq(b, 4, Len(b)))

\* Buffer.from(id, 'base64url') on a string of alphabet characters: four
\* characters to three bytes; a trailing group of two or three characters
\* gives one or two bytes, a single trailing character gives none
RECURSIVE Base64UrlDecode(_)
Base64UrlDecode(c) ==
    IF Len(c) <= 1 THEN <<>>
    ELSE LET v1 == B64Val(c[1])
             v2 == B64Val(c[2])
             b1 == v1 * 4 + v2 \div 16
         IN  IF Len(c) = 2 THEN <<b1>>
             ELSE LET v3 == B64Val(c[3])
                      b2 == (v2 % 16) * 16 + v3 \div 4
                  IN  IF Len(c) = 3 THEN <<b1, b2>>
                      ELSE <<b1, b2, (v3 % 4) * 64 + B64Val(c[4])>>
                           \o Base64UrlDecode(SubSeq(c, 5, Len(c)))

\* U+FFFD in UTF-8
Replacement == <<239, 191, 189>>

IsCont(b) == b >= 128 /\ b <= 191

\* number of continuation bytes a lead byte asks for; -1 for a byte that can
\* start no sequence
Utf8Need(b) == IF b < 128 THEN 0
               ELSE IF b >= 194 /\ b <= 223 THEN 1
               ELSE IF b >= 224 /\ b <= 239 THEN 2
               ELSE IF b >= 240 /\ b <= 244 THEN 3
               ELSE -1

\* the second byte of a sequence is further restricted after E0, ED, F0, F4
Utf8Second(lead, b) ==
    /\ IsCont(b)
    /\ lead = 224 => b >= 160
    /\ lead = 237 => b <= 159
    /\ lead = 240 => b >= 144
    /\ lead = 244 => b <= 143

\* length of the well-formed prefix of the sequence that starts at s[1]
Utf8Good(s) ==
    LET need == Utf8Need(s[1])
    IN  IF need <= 0 THEN 1
        ELSE IF Len(s) < 2 \/ ~Utf8Second(s[1], s[2]) THEN 1
        ELSE IF need = 1 THEN 2
        ELSE IF Len(s) < 3 \/ ~IsCont(s[3]) THEN 2
        ELSE IF need = 2 THEN 3
        ELSE IF Len(s) < 4 \/ ~IsCont(s[4]) THEN 3
        ELSE 4

\* bytes -> string (Buffer.toString('utf-8'), and readdirSync's decoding of a
\* folder name): each maximal ill-formed subsequence becomes one U+FFFD
RECURSIVE Utf8Decode(_)
Utf8Decode(s) ==
    IF s = <<>> THEN <<>>
    ELSE LET need == Utf8Need(s[1])
             good == Utf8Good(s)
         IN  IF need >= 0 /\ good = need + 1
             THEN SubSeq(s, 1, good) \o Utf8Decode(SubSeq(s, good + 1, Len(s)))
             ELSE Replacement \o Utf8Decode(SubSeq(s, good + 1, Len(s)))

\* Buffer.from(path, 'utf-8').toString('base64url')
encodeId(path) == Base64UrlEncode(path)

\* the decoded bytes read as ASCII, every other byte as "?"
decodeIdAscii(id) ==
    LET b == Base64UrlDecode(id)
    IN  [i \in 1..Len(b) |-> IF b[i] < 128 THEN b[i] ELSE 63]

\* Buffer.from(id, 'base64url').toString('utf-8')
decodeId(id) == Utf8Decode(Base64UrlDecode(id))

---------------------------------------------------------------------------
(* Paths: path.join / path.resolve on COMICS_DIR, scanner.ts getComicPages *)

Slash == 47
Dot == 46

\* COMICS_DIR = process.env.COMICS_DIR || '/opt/comics', as its segments
COMICS_DIR == << <<111, 112, 116>>, <<99, 111, 109, 105, 99, 115>> >>

\* a path string cut at its slashes
RECURSIVE SplitSlash(_, _)
SplitSlash(b, cur) ==
    IF b = <<>> THEN <<cur>>
    ELSE IF Head(b) = Slash THEN <<cur>> \o SplitSlash(Tail(b), <<>>)
    ELSE SplitSlash(Tail(b), Append(cur, Head(b)))

\* path normalisation: "" and "." are dropped, ".." removes the segment before it
RECURSIVE Normalize(_, _)
Normalize(segs, acc) ==
    IF segs = <<>> THEN acc
    ELSE LET g == Head(segs)
         IN  IF g = <<>> \/ g = <<Dot>> THEN Normalize(Tail(segs), acc)
             ELSE IF g = <<Dot, Dot>>
               THEN Normalize(Tail(segs),
                              IF acc = <<>> THEN acc ELSE SubSeq(acc, 1, Len(acc) - 1))
             ELSE Normalize(Tail(segs), Append(acc, g))

\* resolve(join(dir, name))
ResolveJoin(dir, name) == Normalize(dir \o SplitSlash(name, <<>>), <<>>)

\* the path as one string: "/seg/seg"
RECURSIVE Render(_)
Render(segs) == IF segs = <<>> THEN <<>> ELSE <<Slash>> \o Head(segs) \o Render(Tail(segs))

\* naturalSort on ASCII names: localeCompare(numeric, sensitivity base) compares
\* letters without case and digit runs by value
IsDigitByte(b) == b >= 48 /\ b <= 57
FoldByte(b) == IF b >= 65 /\ b <= 90 THEN b + 32 ELSE b

RECURSIVE DigitBytes(_)
DigitBytes(s) == IF s # <<>> /\ IsDigitByte(Head(s)) THEN <<Head(s)>> \o DigitBytes(Tail(s))
                 ELSE <<>>

RECURSIVE BytesVal(_)
BytesVal(d) == IF d = <<>> THEN 0
               ELSE BytesVal(SubSeq(d, 1, Len(d) - 1)) * 10 + (d[Len(d)] - 48)

\* the comparison of two strings code unit by code unit, digits as characters
RECURSIVE naturalSortPlain(_, _)
naturalSortPlain(a, b) ==
    IF a = <<>> /\ b = <<>> THEN 0
    ELSE IF a = <<>> THEN -1
    ELSE IF b = <<>> THEN 1
    ELSE IF FoldByte(Head(a)) < FoldByte(Head(b)) THEN -1
    ELSE IF FoldByte(Head(a)) > FoldByte(Head(b)) THEN 1
    ELSE naturalSortPlain(Tail(a), Tail(b))

RECURSIVE naturalSort(_, _)
naturalSort(a, b) ==
    IF a = <<>> /\ b = <<>> THEN 0
    ELSE IF a = <<>> THEN -1
    ELSE IF b = <<>> THEN 1
    ELSE IF IsDigitByte(Head(a)) /\ IsDigitByte(Head(b))
      THEN LET da == DigitBytes(a)
               db == DigitBytes(b)
           IN  IF BytesVal(da) < BytesVal(db) THEN -1
               ELSE IF BytesVal(da) > BytesVal(db) THEN 1
               ELSE naturalSort(SubSeq(a, Len(da) + 1, Len(a)),
                                SubSeq(b, Len(db) + 1, Len(b)))
    ELSE IF FoldByte(Head(a)) < FoldByte(Head(b)) THEN -1
    ELSE IF FoldByte(Head(a)) > FoldByte(Head(b)) THEN 1
    ELSE naturalSort(Tail(a), Tail(b))

\* Array.prototype.sort((a, b) => naturalSort(a.name, b.name)) on records with
\* a name: stable
RECURSIVE InsertSorted(_, _)
InsertSorted(sorted, x) ==
    IF sorted = <<>> THEN <<x>>
    ELSE IF naturalSort(x.name, Head(sorted).name) < 0 THEN <<x>> \o sorted
    ELSE <<Head(sorted)>> \o InsertSorted(Tail(sorted), x)

RECURSIVE SortByName(_)
SortByName(seq) ==
    IF seq = <<>> THEN <<>>
    ELSE InsertSorted(SortByName(SubSeq(seq, 1, Len(seq) - 1)), seq[Len(seq)])

\* folder names on disk, as raw bytes: "a", and the four bytes whose base64url
\* text is "coverA" (they are not well-formed UTF-8)
NameA == <<97>>
NameRaw == <<114, 139, 222, 172>>
DiskNames == {NameA, NameRaw}

\* next to COMICS_DIR, in its parent directory, lies a directory "comics2" that
\* holds one image file
SiblingName == <<99, 111, 109, 105, 99, 115, 50>>
SiblingDir == SubSeq(COMICS_DIR, 1, Len(COMICS_DIR) - 1) \o <<SiblingName>>
OutsideFiles == << <<SiblingName, 0>> >>

\* values of fs for a name that is no folder
NoEntry == -1
PlainFile == -2

\* the folders under COMICS_DIR that a path built from a string can open: a
\* string is well-formed UTF-8, so a folder whose raw name is not is out of reach
Readable == {n \in DOMAIN fs : fs[n] >= 0 /\ Utf8Decode(n) = n}

\* readdirSync(COMICS_DIR): the directory entries, their names decoded to strings
DirEntries == {Utf8Decode(n) : n \in {d \in DOMAIN fs : fs[d] # NoEntry}}

\* entry.isDirectory()
isDirectory(name) == \E n \in DOMAIN fs : Utf8Decode(n) = name /\ fs[n] >= 0

\* the image files of one folder in natural order, each as <<folder, position>>
FolderImages(n) == [k \in 1..fs[n] |-> <<n, k - 1>>]

RECURSIVE ConcatImages(_)
ConcatImages(folders) ==
    IF folders = <<>> THEN <<>>
    ELSE FolderImages(Head(folders).name) \o ConcatImages(Tail(folders))

\* some enumeration of a finite set
RECURSIVE SeqOf(_)
SeqOf(S) == IF S = {} THEN <<>>
            ELSE LET x == CHOOSE y \in S : TRUE IN <<[name |-> x]>> \o SeqOf(S \ {x})

\* getComicPages(folderPath): the image files under a resolved path, sorted by
\* relative path; an unreadable path gives []
getComicPages(folderPath) ==
    IF folderPath = COMICS_DIR THEN ConcatImages(SortByName(SeqOf(Readable)))
    ELSE IF /\ Len(folderPath) = Len(COMICS_DIR) + 1
            /\ SubSeq(folderPath, 1, Len(COMICS_DIR)) = COMICS_DIR
            /\ folderPath[Len(folderPath)] \in Readable
      THEN FolderImages(folderPath[Len(folderPath)])
    ELSE IF folderPath = SiblingDir THEN OutsideFiles
    ELSE IF Len(folderPath) < Len(COMICS_DIR) /\ IsPrefix(folderPath, COMICS_DIR)
      THEN ConcatImages(SortByName(SeqOf(Readable))) \o OutsideFiles
    ELSE <<>>

---------------------------------------------------------------------------
(* Page resolver on an explicit directory tree: scanner.ts isImage,
   scanImagesRecursive, getComicPages.  A directory is [ok, entries]: ok says
   whether readdirSync succeeds, entries is what it returns, in the order the
   filesystem enumerates them.  An entry is [name, kind, sub]: kind is "file",
   "dir" or "other" (a symbolic link, a socket), sub is the directory behind a
   "dir" entry. *)

\* a directory that readdirSync cannot read (EACCES, ENOENT)
Unreadable == [ok |-> FALSE, entries |-> <<>>]

\* a readable directory
Dir(entries) == [ok |-> TRUE, entries |-> entries]

File(name) == [name |-> name, kind |-> "file", sub |-> Unreadable]
Other(name) == [name |-> name, kind |-> "other", sub |-> Unreadable]
SubDir(name, dir) == [name |-> name, kind |-> "dir", sub |-> dir]

\* IMAGE_EXTENSIONS: .jpg .jpeg .png .gif .webp .avif .bmp
IMAGE_EXTENSIONS ==
    {<<46, 106, 112, 103>>, <<46, 106, 112, 101, 103>>, <<46, 112, 110, 103>>,
     <<46, 103, 105, 102>>, <<46, 119, 101, 98, 112>>, <<46, 97, 118, 105, 102>>,
     <<46, 98, 109, 112>>}

\* path.extname of a file name: from its last dot on; nothing when it has no
\* dot or only the one it begins with
extname(name) ==
    LET dots == {i \in 1..Len(name) : name[i] = Dot}
        lastDot == CHOOSE i \in dots : \A j \in dots : j <= i
    IN  IF dots = {} THEN <<>>
        ELSE IF lastDot = 1 THEN <<>>
        ELSE SubSeq(name, lastDot, Len(name))

\* String.prototype.toLowerCase on ASCII
toLowerCase(str) == [i \in 1..Len(str) |-> FoldByte(str[i])]

\* isImage(filename)
isImage(filename) == toLowerCase(extname(filename)) \in IMAGE_EXTENSIONS

\* scanImagesRecursive(basePath, currentPath): the body of the try block is
\* ScanEntries, the loop over the entries; a readdirSync that throws is caught
\* and leaves results empty
RECURSIVE scanImagesRecursive(_, _)
RECURSIVE ScanEntries(_, _)

\* the loop given up at the first subdirectory that cannot be read
RECURSIVE ScanEntriesStopping(_, _)
ScanEntriesStopping(entries, currentPath) ==
    IF entries = <<>> THEN <<>>
    ELSE LET entry == Head(entries)
             entryRelativePath == IF currentPath # <<>>
                                  THEN currentPath \o <<Slash>> \o entry.name
                                  ELSE entry.name
         IN  IF entry.kind = "dir" /\ ~entry.sub.ok THEN <<>>
             ELSE (IF entry.kind = "dir"
                   THEN scanImagesRecursive(entry.sub, entryRelativePath)
                   ELSE IF entry.kind = "file" /\ isImage(entry.name)
                     THEN <<[filename |-> entry.name, relativePath |-> entryRelativePath]>>
                   ELSE <<>>)
                  \o ScanEntriesStopping(Tail(entries), currentPath)

ScanEntries(entries, currentPath) ==
    IF entries = <<>> THEN <<>>
    ELSE LET entry == Head(entries)
             entryRelativePath == IF currentPath # <<>>
                                  THEN currentPath \o <<Slash>> \o entry.name
                                  ELSE entry.name
         IN  (IF entry.kind = "dir"
              THEN scanImagesRecursive(entry.sub, entryRelativePath)
              ELSE IF entry.kind = "file" /\ isImage(entry.name)
                THEN <<[filename |-> entry.name, relativePath |-> entryRelativePath]>>
              ELSE <<>>)
             \o ScanEntries(Tail(entries), currentPath)

scanImagesRecursive(dir, currentPath) ==
    IF ~dir.ok THEN <<>> ELSE ScanEntries(dir.entries, currentPath)

\* images.sort((a, b) => naturalSort(a.relativePath, b.relativePath)): stable
RECURSIVE InsertByPath(_, _)
InsertByPath(sorted, x) ==
    IF sorted = <<>> THEN <<x>>
    ELSE IF naturalSort(x.relativePath, Head(sorted).relativePath) < 0 THEN <<x>> \o sorted
    ELSE <<Head(sorted)>> \o InsertByPath(Tail(sorted), x)

RECURSIVE SortByPath(_)
SortByPath(seq) ==
    IF seq = <<>> THEN <<>>
    ELSE InsertByPath(SortByPath(SubSeq(seq, 1, Len(seq) - 1)), seq[Len(seq)])

\* getComicPages(folderPath) for the directory found at folderPath
getComicPagesOf(dir) ==
    LET images == SortByPath(scanImagesRecursive(dir, <<>>))
    IN  [i \in 1..Len(images) |->
            [index |-> i - 1, filename |-> images[i].filename,
             relativePath |-> images[i].relativePath]]

---------------------------------------------------------------------------
(* Directory index: scanner.ts scanSingleComic, initScanner, getComic *)

NoComic == [found |-> FALSE]

\* a record made for a folder without pages too
scanSingleComicAnyCount(folderName) ==
    LET pages == getComicPages(ResolveJoin(COMICS_DIR, folderName))
        id == encodeId(folderName)
    IN  [found |-> TRUE,
         comic |-> [id |-> id, name |-> folderName, path |-> folderName,
                    pageCount |-> Len(pages),
                    cover |-> generateSignedCoverUrl(id)]]

\* scanSingleComic(comicsDir, folderName)
scanSingleComic(folderName) ==
    LET pages == getComicPages(ResolveJoin(COMICS_DIR, folderName))
        id == encodeId(folderName)
    IN  IF Len(pages) > 0
        THEN [found |-> TRUE,
              comic |-> [id |-> id, name |-> folderName, path |-> folderName,
                         pageCount |-> Len(pages),
                         cover |-> generateSignedCoverUrl(id)]]
        ELSE NoComic

\* Map.prototype.set on a map kept in insertion order
MapSet(map, comic) ==
    IF \E i \in 1..Len(map) : map[i].id = comic.id
    THEN [i \in 1..Len(map) |-> IF map[i].id = comic.id THEN comic ELSE map[i]]
    ELSE Append(map, comic)

\* updateCacheArray()
updateCacheArray(map) == SortByName(map)

\* the loop of initScanner over the directory entries, in the order readdirSync
\* gives them
RECURSIVE ScanAll(_, _)
ScanAll(entries, map) ==
    IF entries = <<>> THEN map
    ELSE LET c == scanSingleComic(Head(entries))
         IN  ScanAll(Tail(entries),
                     IF isDirectory(Head(entries)) /\ c.found THEN MapSet(map, c.comic)
                     ELSE map)

Orders(S) == {o \in [1..Cardinality(S) -> S] : \A i, j \in DOMAIN o : o[i] = o[j] => i = j}

\* the slice taken one page further on
getComicsNextPage(page, limit) ==
    LET start == page * limit
        end == start + limit
        upto == IF end < Len(COMICS_CACHE) THEN end ELSE Len(COMICS_CACHE)
    IN  [comics |-> SubSeq(COMICS_CACHE, start + 1, upto), total |-> Len(COMICS_CACHE)]

\* getComics(page, limit): COMICS_CACHE.slice(start, end) and the total
getComics(page, limit) ==
    LET start == (page - 1) * limit
        end == start + limit
        upto == IF end < Len(COMICS_CACHE) THEN end ELSE Len(COMICS_CACHE)
    IN  [comics |-> SubSeq(COMICS_CACHE, start + 1, upto), total |-> Len(COMICS_CACHE)]

\* getComic(id)
getComic(id) ==
    IF \E i \in 1..Len(COMICS_MAP) : COMICS_MAP[i].id = id
    THEN [found |-> TRUE, comic |-> COMICS_MAP[CHOOSE i \in 1..Len(COMICS_MAP) : COMICS_MAP[i].id = id]]
    ELSE NoComic

\* COMICS_MAP.delete(id)
MapDelete(map, id) ==
    LET keep == {i \in 1..Len(map) : map[i].id # id}
        nth(k) == CHOOSE i \in keep : Cardinality({j \in keep : j < i}) = k - 1
    IN  [k \in 1..Cardinality(keep) |-> map[nth(k)]]

\* path.basename of a resolved path
basename(segs) == segs[Len(segs)]

\* the addDir handler without the refresh of the sorted array
onAddDirStale(folderName) ==
    LET comic == scanSingleComic(folderName)
    IN  IF comic.found
        THEN [map |-> MapSet(COMICS_MAP, comic.comic), cache |-> COMICS_CACHE]
        ELSE [map |-> COMICS_MAP, cache |-> COMICS_CACHE]

\* WATCHER.on('addDir'): the new map and sorted array; a folder with the name
\* of COMICS_DIR itself is taken for the root and ignored
onAddDir(folderName) ==
    LET comic == scanSingleComic(folderName)
    IN  IF folderName = basename(COMICS_DIR) THEN [map |-> COMICS_MAP, cache |-> COMICS_CACHE]
        ELSE IF comic.found
        THEN [map |-> MapSet(COMICS_MAP, comic.comic),
              cache |-> updateCacheArray(MapSet(COMICS_MAP, comic.comic))]
        ELSE [map |-> COMICS_MAP, cache |-> COMICS_CACHE]

\* the unlinkDir handler looking the comic up by its name
onUnlinkDirByName(folderName) ==
    IF \E i \in 1..Len(COMICS_MAP) : COMICS_MAP[i].id = folderName
    THEN [map |-> MapDelete(COMICS_MAP, folderName),
          cache |-> updateCacheArray(MapDelete(COMICS_MAP, folderName))]
    ELSE [map |-> COMICS_MAP, cache |-> COMICS_CACHE]

\* WATCHER.on('unlinkDir'): the new map and sorted array
onUnlinkDir(folderName) ==
    LET id == encodeId(folderName)
    IN  IF \E i \in 1..Len(COMICS_MAP) : COMICS_MAP[i].id = id
        THEN [map |-> MapDelete(COMICS_MAP, id),
              cache |-> updateCacheArray(MapDelete(COMICS_MAP, id))]
        ELSE [map |-> COMICS_MAP, cache |-> COMICS_CACHE]

---------------------------------------------------------------------------
(* The clock *)

\* the clock values explored: the start, a session's expiry and a signed URL's
\* expiry, each with the seconds right after it
TimePoints == {d + k : d \in {0, SessionTtl, UrlTtl}, k \in 0..MaxDrift}

NoUrl == [kind |-> "none", id |-> <<>>, page |-> <<>>, expires |-> Absent, sig |-> Absent]
NoHeld == [url |-> NoUrl, at |-> 0]
NoProbe == [fn |-> "none"]
NoCookie == <<>>
NoExchange == [req |-> [route |-> "none"], resp |-> [status |-> 0], handled |-> 0]
NoEvents == [log |-> <<>>, done |-> 0]

\* the part of the state a specification of the pure functions leaves alone
ServerIdle ==
    /\ clientId = <<>>
    /\ fs = [n \in DiskNames |-> NoEntry]
    /\ COMICS_MAP = <<>>
    /\ COMICS_CACHE = <<>>
    /\ jar = NoCookie
    /\ last = NoExchange
    /\ spent = NoCookie
    /\ events = NoEvents

\* Calls and requests run to completion one at a time (one JavaScript thread):
\* nothing else happens while a result is being looked at.
Quiet == probe = NoProbe /\ last = NoExchange

\* the clock values at which requests are made: the start, and a time after a
\* session's and after a signed URL's expiry
GateTimes == {0, SessionTtl + MaxDrift, UrlTtl + MaxDrift}

\* Date.now() moves forward, to a later one of the clock values T
Tick(T) ==
    /\ Quiet
    /\ \E t \in T : t > now /\ now' = t
    /\ UNCHANGED <<clientId, fs, COMICS_MAP, COMICS_CACHE, jar, held, last, probe, spent, events>>

\* the caller is done with the result of a direct call
CallReturn ==
    /\ probe # NoProbe
    /\ probe' = NoProbe
    /\ UNCHANGED <<now, clientId, fs, COMICS_MAP, COMICS_CACHE, jar, held, last, spent, events>>

---------------------------------------------------------------------------
(* Direct calls of the capability functions, with caller-chosen arguments *)

\* comic ids a caller may pass: any string, also one with the separator in it
IdA == <<"a">>
IdA0 == <<"a", ":", "0">>
IdACover == <<"a", ":">> \o CoverWord
SigIds == {IdA, IdA0, IdACover}

PageArgs == 0..(MaxImages - 1)

\* the last digit of a decimal string replaced by another digit
BumpLast(d) ==
    LET n == Len(d)
    IN  SubSeq(d, 1, n - 1) \o <<IF d[n] = "9" THEN "8" ELSE Digits[DigitVal(d[n]) + 2]>>

\* what a caller can present as expires, knowing the issued value
ExpiresChoices(u) ==
    LET d == u.expires.v
    IN  {u.expires, Txt(d \o <<"x">>), Txt(<<" ">> \o d), Txt(<<"0">> \o d),
         Txt(BumpLast(d)), Txt(<<"x">>), Txt(<<>>)}

\* what a caller can present as sig, knowing the issued value
SigChoices(u) == {u.sig, Tampered(u.sig), Txt(<<"x">>)}

SigIssuePage(A, p) ==
    /\ Quiet
    /\ held' = [url |-> generateSignedUrl(A, p), at |-> now]
    /\ probe' = NoProbe
    /\ UNCHANGED <<now, clientId, fs, COMICS_MAP, COMICS_CACHE, jar, last, spent, events>>

SigIssueCover(A) ==
    /\ Quiet
    /\ held' = [url |-> generateSignedCoverUrl(A), at |-> now]
    /\ probe' = NoProbe
    /\ UNCHANGED <<now, clientId, fs, COMICS_MAP, COMICS_CACHE, jar, last, spent, events>>

CallVerifySignedUrl(B, q, e, s) ==
    /\ Quiet
    /\ probe' = [fn |-> "verifySignedUrl", id |-> B, page |-> q, expires |-> e,
                 sig |-> s, result |-> verifySignedUrl(B, q, e, s)]
    /\ UNCHANGED <<now, clientId, fs, COMICS_MAP, COMICS_CACHE, jar, held, last, spent, events>>

CallVerifySignedCoverUrl(B, e, s) ==
    /\ Quiet
    /\ probe' = [fn |-> "verifySignedCoverUrl", id |-> B, page |-> 0, expires |-> e,
                 sig |-> s, result |-> verifySignedCoverUrl(B, e, s)]
    /\ UNCHANGED <<now, clientId, fs, COMICS_MAP, COMICS_CACHE, jar, held, last, spent, events>>

InitSig == ServerIdle /\ now = 0 /\ held = NoHeld /\ probe = NoProbe

NextSig ==
    \/ Tick(TimePoints)
    \/ CallReturn
    \/ \E A \in SigIds, p \in PageArgs : SigIssuePage(A, p)
    \/ \E A \in SigIds : SigIssueCover(A)
    \/ /\ held # NoHeld
       /\ \E B \in SigIds, q \in PageArgs :
            \E e \in ExpiresChoices(held.url), s \in SigChoices(held.url) :
               CallVerifySignedUrl(B, q, e, s)
    \/ /\ held # NoHeld
       /\ \E B \in SigIds :
            \E e \in ExpiresChoices(held.url), s \in SigChoices(held.url) :
               CallVerifySignedCoverUrl(B, e, s)

SpecSig == InitSig /\ [][NextSig]_vars

---------------------------------------------------------------------------
(* Direct calls of the session codec *)

\* the records a caller may have a token issued for: email set or undefined,
\* any expiry (name and avatar stay undefined)
SessionDatas ==
    {[userId |-> "u1", expiresAt |-> t] : t \in TimePoints}
    \cup {[userId |-> "u1", email |-> "e1", expiresAt |-> t] : t \in TimePoints}

\* a signature the server hands out for a page URL, and the text it signs
UrlText == PageData(encodeId(NameA), 0, UrlTtl)

\* what a caller can present as a token, knowing an issued token <<P, S>>
TokenChoices(h) ==
    LET P == h.token[1]
        S == h.token[2]
        later == [h.data EXCEPT !["expiresAt"] = @ + UrlTtl]
    IN  {h.token,
         <<P>>,                                      \* "P"
         <<P, Txt(<<>>)>>,                           \* "P."
         <<Txt(<<>>), S>>,                           \* ".S"
         <<Txt(<<>>)>>,                              \* ""
         <<P, S, Txt(<<"x">>)>>,                     \* "P.S.x"
         <<P, S, Txt(<<>>)>>,                        \* "P.S."
         <<P, Tampered(S)>>,
         <<Txt(<<"x">>), S>>,
         <<Base64Text(JSONStringify(later)), S>>,
         <<Base64Text(UrlText), generateSignature(UrlText)>>}

NoToken == [token |-> <<>>, data |-> EmptyObject]

SessIssue(data) ==
    /\ Quiet
    /\ held' = [token |-> generateSessionToken(data), data |-> data]
    /\ UNCHANGED <<now, clientId, fs, COMICS_MAP, COMICS_CACHE, jar, last, probe, spent, events>>

CallVerifySessionToken(token) ==
    /\ Quiet
    /\ probe' = [fn |-> "verifySessionToken", token |-> token,
                 result |-> verifySessionToken(token)]
    /\ UNCHANGED <<now, clientId, fs, COMICS_MAP, COMICS_CACHE, jar, held, last, spent, events>>

InitSession == ServerIdle /\ now = 0 /\ held = NoToken /\ probe = NoProbe

NextSession ==
    \/ Tick(TimePoints)
    \/ CallReturn
    \/ \E data \in SessionDatas : SessIssue(data)
    \/ /\ held # NoToken
       /\ \E token \in TokenChoices(held) : CallVerifySessionToken(token)

SpecSession == InitSession /\ [][NextSession]_vars

---------------------------------------------------------------------------
(* Direct calls of encodeId and decodeId *)

\* the characters of a folder name, each as its UTF-8 bytes: "a", "A", ".", "0",
\* e with an acute accent, and U+FFFD
NameChars == {<<97>>, <<65>>, <<Dot>>, <<48>>, <<195, 169>>, Replacement}

\* the folder names readdirSync and basename can give: strings of one up to
\* MaxNameLen characters, as their UTF-8 bytes
RECURSIVE NamesOfLen(_)
NamesOfLen(k) == IF k = 0 THEN {<<>>}
                 ELSE {c \o n : c \in NameChars, n \in NamesOfLen(k - 1)}
FolderNames == UNION {NamesOfLen(k) : k \in 1..MaxNameLen}

\* decodeId(encodeId(name))
CallDecodeEncode(name) ==
    /\ Quiet
    /\ probe' = [fn |-> "decodeId", name |-> name, id |-> encodeId(name),
                 back |-> decodeId(encodeId(name))]
    /\ UNCHANGED <<now, clientId, fs, COMICS_MAP, COMICS_CACHE, jar, held, last, spent, events>>

\* encodeId of two names
CallEncodeTwo(a, b) ==
    /\ Quiet
    /\ probe' = [fn |-> "encodeId", a |-> a, b |-> b, ida |-> encodeId(a), idb |-> encodeId(b)]
    /\ UNCHANGED <<now, clientId, fs, COMICS_MAP, COMICS_CACHE, jar, held, last, spent, events>>

InitId == ServerIdle /\ now = 0 /\ held = NoHeld /\ probe = NoProbe

NextId ==
    \/ Quiet /\ \E n \in FolderNames : CallDecodeEncode(n)
    \/ Quiet /\ \E a, b \in FolderNames : CallEncodeTwo(a, b)
    \/ CallReturn

SpecId == InitId /\ [][NextId]_vars

---------------------------------------------------------------------------
(* The scanner and its watcher *)

\* entry names under COMICS_DIR: "a", "A", "9", "10", the raw name, and "comics",
\* the name of COMICS_DIR itself
NameUpperA == <<65>>
Name9 == <<57>>
Name10 == <<49, 48>>
NameComics == <<99, 111, 109, 105, 99, 115>>
ScanNames == {NameA, NameUpperA, Name9, Name10, NameRaw, NameComics}

\* most folder changes a run goes through
MaxEvents == 2

\* what each entry is when the server starts, if it is not a folder with
\* MaxImages images: missing, an empty folder, or a plain file; the folder
\* "comics" comes only later
StartOther(n) == IF n = NameUpperA THEN 0 ELSE IF n = Name9 THEN PlainFile ELSE NoEntry
StartDisks == {f \in [ScanNames -> PlainFile..MaxImages] :
                  /\ \A n \in ScanNames : f[n] \in {MaxImages, StartOther(n)}
                  /\ f[NameComics] = NoEntry}

\* a folder appears under COMICS_DIR with k image files in it; the watcher
\* will report it
Mkdir(n, k) ==
    /\ Len(events.log) < MaxEvents
    /\ fs[n] = NoEntry
    /\ fs' = [fs EXCEPT ![n] = k]
    /\ events' = [events EXCEPT !.log = Append(@, <<"addDir", Utf8Decode(n)>>)]
    /\ UNCHANGED <<now, clientId, COMICS_MAP, COMICS_CACHE, jar, held, last, probe, spent>>

\* a folder of COMICS_DIR is removed; the watcher will report it
Rmdir(n) ==
    /\ Len(events.log) < MaxEvents
    /\ fs[n] >= 0
    /\ fs' = [fs EXCEPT ![n] = NoEntry]
    /\ events' = [events EXCEPT !.log = Append(@, <<"unlinkDir", Utf8Decode(n)>>)]
    /\ UNCHANGED <<now, clientId, COMICS_MAP, COMICS_CACHE, jar, held, last, probe, spent>>

\* the watcher's next event reaches its handler
WatcherEvent ==
    /\ events.done < Len(events.log)
    /\ LET e == events.log[events.done + 1]
           r == IF e[1] = "addDir" THEN onAddDir(e[2]) ELSE onUnlinkDir(e[2])
       IN  /\ COMICS_MAP' = r.map
           /\ COMICS_CACHE' = r.cache
    /\ events' = [events EXCEPT !.done = @ + 1]
    /\ UNCHANGED <<now, clientId, fs, jar, held, last, probe, spent>>

\* initScanner(COMICS_DIR) has run its full scan over some disk
InitScan ==
    /\ now = 0
    /\ clientId = <<"t">>
    /\ fs \in StartDisks
    /\ \E order \in Orders(DirEntries) : COMICS_MAP = ScanAll(order, <<>>)
    /\ COMICS_CACHE = updateCacheArray(COMICS_MAP)
    /\ jar = NoCookie
    /\ held = NoHeld
    /\ last = NoExchange
    /\ probe = NoProbe
    /\ spent = NoCookie
    /\ events = NoEvents

NextScan ==
    \/ \E n \in ScanNames, k \in 0..MaxImages : Mkdir(n, k)
    \/ \E n \in ScanNames : Rmdir(n)
    \/ WatcherEvent

SpecScan == InitScan /\ [][NextScan]_vars

---------------------------------------------------------------------------
(* HTTP: routes/comics.ts *)

PathComics == <<"/", "a", "p", "i", "/", "c", "o", "m", "i", "c", "s">>
SegPages == <<"/", "p", "a", "g", "e", "s">>
SegCover == <<"/">> \o CoverWord

PathApi == <<"/", "a", "p", "i", "/">>
PathHealth == <<"/", "h", "e", "a", "l", "t", "h">>
PathConfig == PathApi \o <<"c", "o", "n", "f", "i", "g">>

\* c.req.path of a request to one of the five comic routes or to the two
\* routes of the application itself
ReqPath(req) ==
    IF req.route = "health" THEN PathHealth
    ELSE IF req.route = "config" THEN PathConfig
    ELSE IF req.route = "list" THEN PathComics
    ELSE IF req.route = "meta" THEN PathComics \o <<"/">> \o req.id
    ELSE IF req.route = "cover" THEN PathComics \o <<"/">> \o req.id \o SegCover
    ELSE IF req.route = "pages" THEN PathComics \o <<"/">> \o req.id \o SegPages
    ELSE PathComics \o <<"/">> \o req.id \o SegPages \o <<"/">> \o req.page

Json(status, error) == [status |-> status, kind |-> "error", body |-> error]

\* sessionToken && verifySessionToken(sessionToken)
HasSession(cookie) ==
    cookie # NoCookie /\ cookie # <<Txt(<<>>)>> /\ ~verifySessionToken(cookie).null

\* the session looked at before the configuration
MiddlewareSessionFirst(req) ==
    IF HasSession(req.cookie) THEN [pass |-> TRUE, resp |-> Json(0, "")]
    ELSE IF clientId = <<>>
      THEN [pass |-> FALSE, resp |-> Json(500, "Server Configuration Error: Auth Missing")]
    ELSE IF /\ (Includes(ReqPath(req), SegPages \o <<"/">>) \/ Includes(ReqPath(req), SegCover))
            /\ Truthy(req.expires) /\ Truthy(req.sig)
      THEN [pass |-> TRUE, resp |-> Json(0, "")]
    ELSE [pass |-> FALSE, resp |-> Json(401, "Unauthorized: Missing Session or Signature")]

\* the signature pass-through without the restriction to image paths
MiddlewareAnyPath(req) ==
    IF clientId = <<>>
      THEN [pass |-> FALSE, resp |-> Json(500, "Server Configuration Error: Auth Missing")]
    ELSE IF HasSession(req.cookie) \/ (Truthy(req.expires) /\ Truthy(req.sig))
      THEN [pass |-> TRUE, resp |-> Json(0, "")]
    ELSE [pass |-> FALSE, resp |-> Json(401, "Unauthorized: Missing Session or Signature")]

\* comics.use('*', ...)
Middleware(req) ==
    IF clientId = <<>>
      THEN [pass |-> FALSE, resp |-> Json(500, "Server Configuration Error: Auth Missing")]
    ELSE IF HasSession(req.cookie) THEN [pass |-> TRUE, resp |-> Json(0, "")]
    ELSE IF /\ (Includes(ReqPath(req), SegPages \o <<"/">>) \/ Includes(ReqPath(req), SegCover))
            /\ Truthy(req.expires) /\ Truthy(req.sig)
      THEN [pass |-> TRUE, resp |-> Json(0, "")]
    ELSE [pass |-> FALSE, resp |-> Json(401, "Unauthorized: Missing Session or Signature")]

\* streamImage(c, imagePath): the file is one getComicPages has just listed
streamImage(req, file) ==
    IF req.inm THEN [status |-> 304, kind |-> "notmodified", body |-> file]
    ELSE [status |-> 200, kind |-> "image", body |-> file]

\* the page and the page size of a list request that names neither
DefaultPage == 1
DefaultLimit == 36

\* c.req.query(name) || fallback
QueryOr(value, fallback) == IF Truthy(value) THEN value.v ELSE NumStr(fallback)

\* Math.max(1, n): NaN for NaN
MathMax1(n) == IF n.nan THEN NaN ELSE IF n.val < 1 THEN Num(1) ELSE n

\* Math.ceil(total / limit) for limit >= 1
CeilDiv(total, limit) == (total + limit - 1) \div limit

\* GET /comics; with a page or limit that is no number, getComics slices from
\* NaN, which gives no element, and page or totalPages is NaN
HandleList(req) ==
    LET page == MathMax1(parseInt(QueryOr(req.qpage, DefaultPage)))
        limit == MathMax1(parseInt(QueryOr(req.qlimit, DefaultLimit)))
        got == IF page.nan \/ limit.nan
               THEN [comics |-> <<>>, total |-> Len(COMICS_CACHE)]
               ELSE getComics(page.val, limit.val)
    IN  [status |-> 200, kind |-> "list",
         body |-> [count |-> got.total, comics |-> got.comics, page |-> page,
                   totalPages |-> IF limit.nan THEN NaN
                                  ELSE Num(CeilDiv(got.total, limit.val))]]

\* GET /comics/:id
HandleMeta(req) ==
    LET comic == getComic(req.id)
    IN  IF ~comic.found THEN Json(404, "Comic not found")
        ELSE [status |-> 200, kind |-> "meta", body |-> comic.comic]

\* the cover route looking the comic up before it looks at the signature
HandleCoverLookupFirst(req) ==
    LET comic == getComic(req.id)
        folderPath == ResolveJoin(COMICS_DIR, comic.comic.name)
        pages == getComicPages(folderPath)
    IN  IF ~comic.found THEN Json(404, "Comic not found")
        ELSE IF /\ ~HasSession(req.cookie)
                /\ (\/ ~Truthy(req.expires) \/ ~Truthy(req.sig)
                    \/ ~verifySignedCoverUrl(req.id, req.expires, req.sig))
          THEN Json(403, "Unauthorized Identifier")
        ELSE IF ~IsPrefix(Render(COMICS_DIR), Render(folderPath))
          THEN Json(403, "Invalid path")
        ELSE IF Len(pages) = 0 THEN Json(404, "No cover found")
        ELSE streamImage(req, pages[1])

\* GET /comics/:id/cover
HandleCover(req) ==
    LET comic == getComic(req.id)
        folderPath == ResolveJoin(COMICS_DIR, comic.comic.name)
        pages == getComicPages(folderPath)
    IN  IF /\ ~HasSession(req.cookie)
           /\ (\/ ~Truthy(req.expires) \/ ~Truthy(req.sig)
               \/ ~verifySignedCoverUrl(req.id, req.expires, req.sig))
          THEN Json(403, "Unauthorized Identifier")
        ELSE IF ~comic.found THEN Json(404, "Comic not found")
        ELSE IF ~IsPrefix(Render(COMICS_DIR), Render(folderPath))
          THEN Json(403, "Invalid path")
        ELSE IF Len(pages) = 0 THEN Json(404, "No cover found")
        ELSE streamImage(req, pages[1])

\* the page list served without the handler's own session check
HandlePagesLoose(req) ==
    LET comic == getComic(req.id)
        pages == getComicPages(ResolveJoin(COMICS_DIR, comic.comic.name))
    IN  IF ~comic.found THEN Json(404, "Comic not found")
        ELSE [status |-> 200, kind |-> "pages",
              body |-> [id |-> req.id, name |-> comic.comic.name,
                        pageCount |-> Len(pages),
                        pages |-> [i \in 1..Len(pages) |->
                                     [index |-> i - 1,
                                      url |-> generateSignedUrl(req.id, i - 1)]]]]

\* GET /comics/:id/pages
HandlePages(req) ==
    LET comic == getComic(req.id)
        pages == getComicPages(ResolveJoin(COMICS_DIR, comic.comic.name))
    IN  IF ~HasSession(req.cookie) THEN Json(401, "Unauthorized")
        ELSE IF ~comic.found THEN Json(404, "Comic not found")
        ELSE [status |-> 200, kind |-> "pages",
              body |-> [id |-> req.id, name |-> comic.comic.name,
                        pageCount |-> Len(pages),
                        pages |-> [i \in 1..Len(pages) |->
                                     [index |-> i - 1,
                                      url |-> generateSignedUrl(req.id, i - 1)]]]]

\* the page image served on the middleware's word alone
HandlePageNoVerify(req) ==
    LET pageIndex == parseInt(req.page)
        pages == getComicPages(ResolveJoin(COMICS_DIR, decodeId(req.id)))
    IN  IF pageIndex.nan \/ pageIndex.val < 0 THEN Json(400, "Invalid page index")
        ELSE IF pageIndex.val >= Len(pages) THEN Json(404, "Page not found")
        ELSE streamImage(req, pages[pageIndex.val + 1])

\* the capability checked before the page index is
HandlePageAuthFirst(req) ==
    LET pageIndex == parseInt(req.page)
        folderPath == ResolveJoin(COMICS_DIR, decodeId(req.id))
        pages == getComicPages(folderPath)
    IN  IF /\ ~HasSession(req.cookie)
           /\ (\/ ~Truthy(req.expires) \/ ~Truthy(req.sig)
               \/ pageIndex.nan
               \/ ~verifySignedUrl(req.id, pageIndex.val, req.expires, req.sig))
          THEN Json(403, "Unauthorized Identifier")
        ELSE IF pageIndex.nan \/ pageIndex.val < 0 THEN Json(400, "Invalid page index")
        ELSE IF ~IsPrefix(Render(COMICS_DIR), Render(folderPath))
          THEN Json(403, "Invalid path")
        ELSE IF pageIndex.val >= Len(pages) THEN Json(404, "Page not found")
        ELSE streamImage(req, pages[pageIndex.val + 1])

\* GET /comics/:id/pages/:page
HandlePage(req) ==
    LET pageIndex == parseInt(req.page)
        folderPath == ResolveJoin(COMICS_DIR, decodeId(req.id))
        pages == getComicPages(folderPath)
    IN  IF pageIndex.nan \/ pageIndex.val < 0 THEN Json(400, "Invalid page index")
        ELSE IF /\ ~HasSession(req.cookie)
                /\ (\/ ~Truthy(req.expires) \/ ~Truthy(req.sig)
                    \/ ~verifySignedUrl(req.id, pageIndex.val, req.expires, req.sig))
          THEN Json(403, "Unauthorized Identifier")
        ELSE IF ~IsPrefix(Render(COMICS_DIR), Render(folderPath))
          THEN Json(403, "Invalid path")
        ELSE IF pageIndex.val >= Len(pages) THEN Json(404, "Page not found")
        ELSE streamImage(req, pages[pageIndex.val + 1])

\* isAuthEnabled()
isAuthEnabled == clientId # <<>>

\* GET /health
HandleHealth(req) ==
    [status |-> 200, kind |-> "status",
     body |-> [status |-> "ok", timestamp |-> now, authEnabled |-> isAuthEnabled]]

\* GET /api/config
HandleConfig(req) ==
    [status |-> 200, kind |-> "status", body |-> [authEnabled |-> isAuthEnabled]]

\* app.route('/api', comicsRouter) registers the router's use('*') middleware
\* for every path under /api/
UnderApi(req) == IsPrefix(PathApi, ReqPath(req))

\* the handlers that match the path, in the order they were
\* registered: the comics router's middleware (index.ts line 59), then the
\* handler of the route
Serve(req) ==
    LET mw == Middleware(req)
    IN  IF ~UnderApi(req) THEN HandleHealth(req)
        ELSE IF ~mw.pass THEN mw.resp
        ELSE IF req.route = "config" THEN HandleConfig(req)
        ELSE IF req.route = "list" THEN HandleList(req)
        ELSE IF req.route = "meta" THEN HandleMeta(req)
        ELSE IF req.route = "cover" THEN HandleCover(req)
        ELSE IF req.route = "pages" THEN HandlePages(req)
        ELSE HandlePage(req)

\* the values of Cache-Control: that of images, that of lists and metadata
CacheImmutable == "public, max-age=31536000, immutable"
CacheNone == "no-cache, no-store, must-revalidate"
NoHeader == "(none)"

\* path.match(/\/pages\/\d+/)
MatchPagesDigit(path) ==
    \E i \in 1..Len(path) :
        /\ i + Len(SegPages) + 1 <= Len(path)
        /\ SubSeq(path, i, i + Len(SegPages)) = SegPages \o <<"/">>
        /\ IsDigit(path[i + Len(SegPages) + 1])

\* path.endsWith('/pages')
EndsWithPages(path) ==
    Len(path) >= Len(SegPages) /\ SubSeq(path, Len(path) - Len(SegPages) + 1, Len(path)) = SegPages

\* path.match(/\/api\/comics\/[^\/]+$/)
MatchComicsId(path) ==
    \E i \in 1..Len(path) :
        /\ i + Len(PathComics) + 1 <= Len(path)
        /\ SubSeq(path, i, i + Len(PathComics)) = PathComics \o <<"/">>
        /\ \A j \in (i + Len(PathComics) + 1)..Len(path) : path[j] # "/"

\* the Cache-Control header of the response once the cache headers middleware
\* of app.use('/api/*') has run after the handlers; streamImage sets the header
\* itself on the image it streams
CacheControl(req, resp) ==
    LET path == ReqPath(req)
        own == IF resp.kind = "image" THEN CacheImmutable ELSE NoHeader
    IN  IF Includes(path, SegCover) \/ MatchPagesDigit(path)
          THEN IF own = NoHeader THEN CacheImmutable ELSE own
        ELSE IF path = PathComics \/ EndsWithPages(path) \/ MatchComicsId(path)
          THEN CacheNone
        ELSE own

\* app.fetch: the response of the routes, with the headers the middleware of
\* /api/* gives it
Fetch(req) ==
    LET resp == Serve(req)
    IN  [status |-> resp.status, kind |-> resp.kind, body |-> resp.body,
         cache |-> IF UnderApi(req) THEN CacheControl(req, resp) ELSE NoHeader]

---------------------------------------------------------------------------
(* The server and its clients *)

\* comic ids a client may put in a path: the id of folder "a" and "coverA", the
\* base64url text of the raw name on disk
IdOfA == encodeId(NameA)
IdCoverA == Base64UrlEncode(NameRaw)
HttpIds == {IdOfA, IdCoverA}

\* ids whose decoded name leaves COMICS_DIR: "../comics2" and ".."
IdSibling == encodeId(<<Dot, Dot, Slash>> \o SiblingName)
IdParent == encodeId(<<Dot, Dot>>)

\* page path parameters: the indices, and one that is no number
PageParams == {NumStr(k) : k \in 0..(MaxImages - 1)} \cup {<<"x">>}

\* cookies a client may send: none, and the one the browser holds or, when it
\* holds none, a made-up one
Cookies == {NoCookie, IF jar = NoCookie THEN <<Txt(<<"x">>)>> ELSE jar}

\* query values a client may send: none, an empty one, and those of the URL it
\* kept, as they are or altered, or, when it kept none, made-up ones
QueryExpires == {Absent, Txt(<<>>), IF held = NoHeld THEN Txt(<<"x">>) ELSE held.url.expires}
QuerySigs == {Absent} \cup (IF held = NoHeld THEN {Txt(<<"x">>)}
                            ELSE {held.url.sig, Tampered(held.url.sig)})

Requests ==
    {[route |-> r, id |-> i, page |-> p, cookie |-> c, expires |-> e, sig |-> g, inm |-> m, qpage |-> Absent, qlimit |-> Absent] :
        r \in {"cover", "page"}, i \in HttpIds, p \in PageParams, c \in Cookies,
        e \in QueryExpires, g \in QuerySigs, m \in BOOLEAN}
    \cup
    {[route |-> r, id |-> i, page |-> <<>>, cookie |-> c, expires |-> e, sig |-> g, inm |-> FALSE, qpage |-> Absent, qlimit |-> Absent] :
        r \in {"list", "meta", "pages"}, i \in HttpIds, c \in Cookies,
        e \in QueryExpires, g \in QuerySigs}
    \cup
    {[route |-> "page", id |-> i, page |-> NumStr(0), cookie |-> c, expires |-> Absent,
      sig |-> Absent, inm |-> FALSE, qpage |-> Absent, qlimit |-> Absent] :
        i \in {IdSibling, IdParent}, c \in Cookies}

\* a path has the parameters of its route only
WellFormedRequest(req) ==
    /\ req.route = "list" => req.id = IdOfA
    /\ req.route = "cover" => req.page = NumStr(0)

\* a request whose handling scans COMICS_DIR again
HttpRequestRescanning(req) ==
    /\ Quiet
    /\ WellFormedRequest(req)
    /\ last' = [req |-> req, resp |-> Fetch(req), handled |-> events.done]
    /\ COMICS_MAP' = ScanAll([i \in 1..Len(COMICS_MAP) |-> COMICS_MAP[i].name], <<>>)
    /\ COMICS_CACHE' = updateCacheArray(COMICS_MAP')
    /\ UNCHANGED <<now, clientId, fs, jar, held, probe, spent, events>>

\* one request, from the middleware to the response; with it is noted how many
\* watcher events had been handled when it was answered
HttpRequest(req) ==
    /\ Quiet
    /\ WellFormedRequest(req)
    /\ last' = [req |-> req, resp |-> Fetch(req), handled |-> events.done]
    /\ UNCHANGED <<now, clientId, fs, COMICS_MAP, COMICS_CACHE, jar, held, probe, spent, events>>

\* the client drops the response
Done ==
    /\ last # NoExchange
    /\ last' = NoExchange
    /\ UNCHANGED <<now, clientId, fs, COMICS_MAP, COMICS_CACHE, jar, held, probe, spent, events>>

\* the client keeps one page URL of the page list it has just received
KeepPageUrl ==
    /\ last.resp.status = 200 /\ last.resp.kind = "pages"
    /\ \E i \in DOMAIN last.resp.body.pages :
          held' = [url |-> last.resp.body.pages[i].url, at |-> now]
    /\ last' = NoExchange
    /\ UNCHANGED <<now, clientId, fs, COMICS_MAP, COMICS_CACHE, jar, probe, spent, events>>

\* the client keeps the cover URL of a comic in the list it has just received;
\* the URL was issued when the comic was scanned
KeepCoverUrl ==
    /\ last.resp.status = 200 /\ last.resp.kind = "list"
    /\ \E i \in DOMAIN last.resp.body.comics :
          held' = [url |-> last.resp.body.comics[i].cover,
                   at |-> parseIntOf(last.resp.body.comics[i].cover.expires).val - UrlTtl]
    /\ last' = NoExchange
    /\ UNCHANGED <<now, clientId, fs, COMICS_MAP, COMICS_CACHE, jar, probe, spent, events>>

\* sessionData of the OIDC callback at clock value t: a session of seven days
SessionAt(t) == [userId |-> "u1", email |-> "e1", expiresAt |-> t + SessionTtl]

\* the OIDC callback completes: the session's token is set as the cookie
Login ==
    /\ Quiet
    /\ clientId # <<>>
    /\ jar' = generateSessionToken(SessionAt(now))
    /\ UNCHANGED <<now, clientId, fs, COMICS_MAP, COMICS_CACHE, held, last, probe, spent, events>>

\* POST /api/auth/logout for the session in the browser: deleteCookie
Logout ==
    /\ Quiet
    /\ jar # NoCookie
    /\ jar' = NoCookie
    /\ spent' = jar
    /\ UNCHANGED <<now, clientId, fs, COMICS_MAP, COMICS_CACHE, held, last, probe, events>>

\* the state when serve() starts: initScanner has scanned COMICS_DIR; a browser
\* may still hold the cookie of a login just before the restart (SECRET_KEY and
\* OIDC_CLIENT_ID come from the environment of each run)
Init ==
    /\ now = 0
    /\ clientId \in {<<>>, <<"t">>}
    /\ fs \in {f \in [DiskNames -> NoEntry..MaxImages] : f[NameRaw] = MaxImages}
    /\ \E order \in Orders(DirEntries) : COMICS_MAP = ScanAll(order, <<>>)
    /\ COMICS_CACHE = updateCacheArray(COMICS_MAP)
    /\ jar \in {NoCookie, generateSessionToken(SessionAt(0))}
    /\ held = NoHeld
    /\ last = NoExchange
    /\ probe = NoProbe
    /\ spent = NoCookie
    /\ events = NoEvents

Next ==
    \/ Tick(GateTimes)
    \/ Login
    \/ Quiet /\ \E req \in Requests : HttpRequest(req)
    \/ KeepPageUrl
    \/ KeepCoverUrl
    \/ Done

Spec == Init /\ [][Next]_vars

---------------------------------------------------------------------------
(* Direct calls of getComics and of the list handler *)

\* largest page number and page size asked for
MaxPageArg == 3

\* page and limit query values: none, the numbers 0..MaxPageArg, and no number
PageQueries == {Absent, Txt(<<"x">>)} \cup {Txt(NumStr(k)) : k \in 0..MaxPageArg}

\* getComics(page, limit)
CallGetComics(page, limit) ==
    /\ Quiet
    /\ probe' = [fn |-> "getComics", page |-> page, limit |-> limit,
                 result |-> getComics(page, limit)]
    /\ UNCHANGED <<now, clientId, fs, COMICS_MAP, COMICS_CACHE, jar, held, last, spent, events>>

\* the handler of GET /comics, for a request the middleware let through
CallHandleList(qpage, qlimit) ==
    /\ Quiet
    /\ probe' = [fn |-> "HandleList", qpage |-> qpage, qlimit |-> qlimit,
                 result |-> HandleList([route |-> "list", qpage |-> qpage, qlimit |-> qlimit])]
    /\ UNCHANGED <<now, clientId, fs, COMICS_MAP, COMICS_CACHE, jar, held, last, spent, events>>

InitPage == InitScan

NextPage ==
    \/ Quiet /\ \E p, l \in 1..MaxPageArg : CallGetComics(p, l)
    \/ Quiet /\ \E qp, ql \in PageQueries : CallHandleList(qp, ql)
    \/ CallReturn

SpecPage == InitPage /\ [][NextPage]_vars

---------------------------------------------------------------------------
(* The startup scan on an explicit directory tree: scanner.ts scanSingleComic,
   initScanner *)

\* the directory at join(comicsDir, folderName): one that cannot be read when
\* the root has no folder of that name
OpenDir(root, folderName) ==
    IF \E i \in 1..Len(root.entries) :
          root.entries[i].name = folderName /\ root.entries[i].kind = "dir"
    THEN root.entries[CHOOSE i \in 1..Len(root.entries) :
                         root.entries[i].name = folderName /\ root.entries[i].kind = "dir"].sub
    ELSE Unreadable

\* scanSingleComic(comicsDir, folderName) with comicsDir the directory root
scanSingleComicIn(root, folderName) ==
    LET pages == getComicPagesOf(OpenDir(root, folderName))
        id == encodeId(folderName)
    IN  IF Len(pages) > 0
        THEN [found |-> TRUE,
              comic |-> [id |-> id, name |-> folderName, path |-> folderName,
                         pageCount |-> Len(pages),
                         cover |-> generateSignedCoverUrl(id)]]
        ELSE NoComic

\* the loop of initScanner over the entries of the root
RECURSIVE ScanRoot(_, _, _)
ScanRoot(root, entries, map) ==
    IF entries = <<>> THEN map
    ELSE LET comic == scanSingleComicIn(root, Head(entries).name)
         IN  ScanRoot(root, Tail(entries),
                      IF Head(entries).kind = "dir" /\ comic.found
                      THEN MapSet(map, comic.comic) ELSE map)

\* initScanner(comicsDir), its full scan: the map and the sorted array after it;
\* a root that cannot be read leaves both empty
initScannerOn(root) ==
    IF ~root.ok THEN [map |-> <<>>, cache |-> <<>>]
    ELSE [map |-> ScanRoot(root, root.entries, <<>>),
          cache |-> updateCacheArray(ScanRoot(root, root.entries, <<>>))]

---------------------------------------------------------------------------
(* Direct calls of the page resolver and of the startup scan on directory trees *)

\* most entries of one directory
MaxEntries == 3

ExtJpg == <<46, 106, 112, 103>>
ExtJpgUpper == <<46, 74, 80, 71>>
ExtTxt == <<46, 116, 120, 116>>

\* files of a comic folder: 1.jpg 2.jpg 10.jpg 01.jpg a.jpg A.JPG a.txt, and
\* 3.jpg, which is no regular file
FolderFiles ==
    {File(<<49>> \o ExtJpg), File(<<50>> \o ExtJpg), File(<<49, 48>> \o ExtJpg),
     File(<<48, 49>> \o ExtJpg), File(<<97>> \o ExtJpg), File(<<65>> \o ExtJpgUpper),
     File(<<97>> \o ExtTxt), Other(<<51>> \o ExtJpg)}

\* a subdirectory "s" of a comic folder: unreadable, or holding 1.jpg, or a.txt
FolderSubDirs ==
    {SubDir(<<115>>, d) : d \in {Unreadable, Dir(<<File(<<49>> \o ExtJpg)>>),
                                 Dir(<<File(<<97>> \o ExtTxt)>>)}}

\* the listings readdirSync can give: up to MaxEntries entries with different
\* names, in any order
Listings(items) ==
    UNION {{l \in [1..n -> items] : \A i, j \in 1..n : l[i].name = l[j].name => i = j} :
              n \in 0..MaxEntries}

\* comic folders
Folders == {Unreadable} \cup {Dir(l) : l \in Listings(FolderFiles \cup FolderSubDirs)}

\* the same entries, enumerated in a possibly different order
SameEntries(d, e) ==
    /\ d.ok = e.ok
    /\ Len(d.entries) = Len(e.entries)
    /\ {d.entries[i] : i \in 1..Len(d.entries)} = {e.entries[i] : i \in 1..Len(e.entries)}

\* comic folders under a root: unreadable, empty, holding 1.jpg, or holding
\* 1.jpg next to a subdirectory that cannot be read
RootFolders ==
    {Unreadable, Dir(<<>>), Dir(<<File(<<49>> \o ExtJpg)>>),
     Dir(<<SubDir(<<115>>, Unreadable), File(<<49>> \o ExtJpg)>>)}

\* the roots: folders "a" and "b" and a plain file 1.jpg
Roots ==
    {Unreadable} \cup
    {Dir(l) : l \in Listings({SubDir(n, d) : n \in {<<97>>, <<98>>}, d \in RootFolders}
                              \cup {File(<<49>> \o ExtJpg)})}

\* the directory d enumerated in the order o of its entries
Reordered(d, o) == [d EXCEPT !.entries = [i \in 1..Len(d.entries) |-> d.entries[o[i]]]]

\* getComicPages(folderPath)
CallGetComicPages(dir) ==
    /\ Quiet
    /\ probe' = [fn |-> "getComicPages", dir |-> dir, result |-> getComicPagesOf(dir)]
    /\ UNCHANGED <<now, clientId, fs, COMICS_MAP, COMICS_CACHE, jar, held, last, spent, events>>

\* getComicPages(folderPath) on two runs of the server in which readdirSync
\* enumerates the same entries
CallGetComicPagesTwice(d, e) ==
    /\ Quiet
    /\ SameEntries(d, e)
    /\ probe' = [fn |-> "getComicPagesTwice", dir |-> d, other |-> e,
                 result |-> getComicPagesOf(d), again |-> getComicPagesOf(e)]
    /\ UNCHANGED <<now, clientId, fs, COMICS_MAP, COMICS_CACHE, jar, held, last, spent, events>>

\* initScanner(comicsDir) up to the end of its full scan
CallInitScanner(root) ==
    /\ Quiet
    /\ probe' = [fn |-> "initScanner", root |-> root, result |-> initScannerOn(root)]
    /\ UNCHANGED <<now, clientId, fs, COMICS_MAP, COMICS_CACHE, jar, held, last, spent, events>>

InitTree == ServerIdle /\ now = 0 /\ held = NoHeld /\ probe = NoProbe

NextTree ==
    \/ Quiet /\ \E d \in Folders : CallGetComicPages(d)
    \/ Quiet /\ \E d \in Folders : \E o \in Orders(1..Len(d.entries)) :
                    CallGetComicPagesTwice(d, Reordered(d, o))
    \/ Quiet /\ \E root \in Roots : CallInitScanner(root)
    \/ CallReturn

SpecTree == InitTree /\ [][NextTree]_vars

---------------------------------------------------------------------------
(* Sessions from login to logout, and the routes of the application itself *)

\* requests without query parameters to the comic list and to the two routes of
\* the application, with no cookie, the browser's cookie (or a made-up one), or
\* a copy of the cookie the last logout deleted
AuthRequests ==
    {[route |-> r, id |-> IdOfA, page |-> <<>>, cookie |-> c, expires |-> Absent,
      sig |-> Absent, inm |-> FALSE, qpage |-> Absent, qlimit |-> Absent] :
        r \in {"list", "health", "config"}, c \in Cookies \cup {spent}}

InitAuth == Init

NextAuth ==
    \/ Tick(GateTimes)
    \/ Login
    \/ Logout
    \/ Quiet /\ \E req \in AuthRequests : HttpRequest(req)
    \/ Done

SpecAuth == InitAuth /\ [][NextAuth]_vars

---------------------------------------------------------------------------
(* The running server: requests, logins and logouts while folders come and go
   and the watcher reports them *)

\* a watcher that also reports changes inside a folder, whose handler scans
\* the folder again
TouchImagesWatched(n, k) ==
    /\ fs[n] >= 0 /\ k # fs[n]
    /\ fs' = [fs EXCEPT ![n] = k]
    /\ COMICS_MAP' = [i \in 1..Len(COMICS_MAP) |->
                         IF COMICS_MAP[i].id = encodeId(Utf8Decode(n)) /\ k >= 1
                         THEN [COMICS_MAP[i] EXCEPT !.pageCount = k] ELSE COMICS_MAP[i]]
    /\ COMICS_CACHE' = updateCacheArray(COMICS_MAP')
    /\ UNCHANGED <<now, clientId, jar, held, last, probe, spent, events>>

\* image files are added to or removed from a folder of COMICS_DIR; the watcher
\* looks at depth 0 only and reports nothing
TouchImages(n, k) ==
    /\ fs[n] >= 0 /\ k # fs[n]
    /\ fs' = [fs EXCEPT ![n] = k]
    /\ UNCHANGED <<now, clientId, COMICS_MAP, COMICS_CACHE, jar, held, last, probe, spent, events>>

\* requests with made-up or missing query values and no If-None-Match
LiveRequests ==
    {req \in Requests : ~req.inm /\ req.expires # Txt(<<>>) /\ req.id \in HttpIds}

\* the request just answered is sent once more
Replay ==
    /\ last # NoExchange /\ probe = NoProbe
    /\ probe' = [fn |-> "replay", req |-> last.req, first |-> last.resp,
                 handled |-> last.handled, again |-> Fetch(last.req)]
    /\ last' = NoExchange
    /\ UNCHANGED <<now, clientId, fs, COMICS_MAP, COMICS_CACHE, jar, held, spent, events>>

\* the folder that comes, changes and goes is "a"
InitLive == Init /\ clientId # <<>> /\ jar = NoCookie

NextLive ==
    \/ \E k \in 0..MaxImages : Mkdir(NameA, k)
    \/ Rmdir(NameA)
    \/ \E k \in 0..MaxImages : TouchImages(NameA, k)
    \/ WatcherEvent
    \/ Login
    \/ Logout
    \/ Quiet /\ \E req \in LiveRequests : HttpRequest(req)
    \/ Replay
    \/ Done
    \/ CallReturn

SpecLive == InitLive /\ [][NextLive]_vars

---------------------------------------------------------------------------
(* Capabilities issued and verified while the server runs *)

\* the clock values of a capability's life: its issue, and a time past its expiry
CapTimes == {0, UrlTtl + MaxDrift}

\* the list request of the browser, with the cookie it holds
ListRequest ==
    [route |-> "list", id |-> IdOfA, page |-> <<>>, cookie |-> jar, expires |-> Absent,
     sig |-> Absent, inm |-> FALSE, qpage |-> Absent, qlimit |-> Absent]

InitCap == Init /\ clientId # <<>> /\ jar = NoCookie /\ fs[NameA] = MaxImages

NextCap ==
    \/ Tick(CapTimes)
    \/ Mkdir(NameA, MaxImages)
    \/ Rmdir(NameA)
    \/ WatcherEvent
    \/ Login
    \/ Logout
    \/ HttpRequest(ListRequest)
    \/ Done
    \/ held = NoHeld /\ \E p \in PageArgs : SigIssuePage(IdOfA, p)
    \/ held = NoHeld /\ SigIssueCover(IdOfA)
    \/ /\ held # NoHeld /\ held.url.kind = "page"
       /\ \E s \in SigChoices(held.url) :
             CallVerifySignedUrl(held.url.id, parseInt(held.url.page).val, held.url.expires, s)
    \/ /\ held # NoHeld /\ held.url.kind = "cover"
       /\ \E s \in SigChoices(held.url) :
             CallVerifySignedCoverUrl(held.url.id, held.url.expires, s)
    \/ CallReturn

SpecCap == InitCap /\ [][NextCap]_vars

---------------------------------------------------------------------------
(* A client reads the whole listing page by page, as the discovery loop of
   warmup.js does, while folders come and go and the watcher reports them *)

\* the ids of the records of a sequence
IdsOf(seq) == {seq[i].id : i \in 1..Len(seq)}

\* the list request for one page: /api/comics?page=${page}&limit=${limit}
DiscoverRequest(page, limit) ==
    [route |-> "list", qpage |-> Txt(NumStr(page)), qlimit |-> Txt(NumStr(limit))]

\* const comics = []; let page = 1; let hasMore = true
DiscoverStart(limit) ==
    /\ Quiet
    /\ probe' = [fn |-> "discover", limit |-> limit, page |-> 1, hasMore |-> TRUE,
                 comics |-> <<>>, first |-> IdsOf(COMICS_CACHE), from |-> events.done]
    /\ UNCHANGED <<now, clientId, fs, COMICS_MAP, COMICS_CACHE, jar, held, last, spent, events>>

\* one round of while (hasMore): fetch the page, push its comics, stop at the
\* last page, page++
DiscoverFetch ==
    /\ probe # NoProbe /\ probe.fn = "discover" /\ probe.hasMore
    /\ LET data == HandleList(DiscoverRequest(probe.page, probe.limit)).body
       IN  probe' = [probe EXCEPT !.comics = @ \o data.comics,
                                  !.hasMore = ~(probe.page >= data.totalPages.val),
                                  !.page = @ + 1]
    /\ UNCHANGED <<now, clientId, fs, COMICS_MAP, COMICS_CACHE, jar, held, last, spent, events>>

\* the names that come and go during a traversal
DiscoverNames == {NameA, Name9, Name10}

InitDiscover == InitScan /\ fs[NameRaw] = NoEntry /\ fs[NameUpperA] = 0

NextDiscover ==
    \/ \E n \in DiscoverNames : Mkdir(n, MaxImages)
    \/ \E n \in DiscoverNames : Rmdir(n)
    \/ WatcherEvent
    \/ \E limit \in 1..MaxPageArg : DiscoverStart(limit)
    \/ DiscoverFetch
    \/ CallReturn

SpecDiscover == InitDiscover /\ [][NextDiscover]_vars

---------------------------------------------------------------------------
(* The OIDC handshake: routes/auth.ts GET /auth/login and GET /auth/callback.
   The browser's cookies of the handshake are held in `held`, as
   [domain, state, pkce]; `spent` lists the state values that callbacks have
   accepted.  The identity provider answers the token and the userinfo request
   as it likes. *)

SESSION_COOKIE == "tachyon_session"
STATE_COOKIE == "tachyon_state"
PKCE_COOKIE == "tachyon_pkce"

\* most handshakes a run starts
MaxHandshakes == 2

\* generateState(): a value no handshake has had before
StateOf(k) == NumStr(k)

\* generateCodeVerifier()
VerifierOf(k) == <<"v">> \o NumStr(k)

\* COOKIE_DOMAIN of the environment: undefined, or a parent domain of the host
CookieDomains == {Absent, Txt(<<".", "d">>)}

\* setCookie(c, name, value, {maxAge, domain}): one Set-Cookie header
setCookie(name, value, maxAge, domain) ==
    [name |-> name, value |-> value, maxAge |-> maxAge, domain |-> domain]

\* deleteCookie(c, name): the name with an empty value and Max-Age=0; no
\* domain is passed
deleteCookie(name) == setCookie(name, <<>>, 0, Absent)

\* what the provider may answer: ok, a status that is not ok with an error
\* body, or no answer at all (fetch or json() throws)
ProviderError == "provider error body"
ProviderAnswers ==
    {[ok |-> TRUE, threw |-> FALSE, text |-> "json"],
     [ok |-> FALSE, threw |-> FALSE, text |-> ProviderError],
     [ok |-> FALSE, threw |-> TRUE, text |-> ProviderError]}

\* GET /auth/callback for the query values code and state and the cookies
\* storedState and codeVerifier, with the provider's two answers
HandleCallback(req, tokenRes, userRes, domain) ==
    LET cleared == <<deleteCookie(STATE_COOKIE), deleteCookie(PKCE_COOKIE)>>
        fail(status, error) ==
            [status |-> status, kind |-> "error", body |-> error, cookies |-> cleared]
    IN  IF ~Truthy(req.state) \/ req.state # req.storedState THEN fail(400, "Invalid state")
        ELSE IF ~Truthy(req.code) THEN fail(400, "No code provided")
        ELSE IF tokenRes.threw THEN fail(500, "Authentication failed")
        ELSE IF ~tokenRes.ok THEN fail(500, "Token exchange failed")
        ELSE IF userRes.threw THEN fail(500, "Authentication failed")
        ELSE IF ~userRes.ok THEN fail(500, "Failed to get user info")
        ELSE [status |-> 302, kind |-> "redirect", body |-> "/",
              cookies |-> cleared \o
                  <<setCookie(SESSION_COOKIE, generateSessionToken(SessionAt(now)),
                              SessionTtl, domain)>>]

\* the browser stores a Set-Cookie header: a cookie is replaced or removed only
\* by a header for the same name and the same domain
Stored(cookie, name, domain, cookies) ==
    IF \E i \in 1..Len(cookies) :
          cookies[i].name = name /\ cookies[i].domain = domain /\ cookies[i].maxAge = 0
    THEN Absent
    ELSE cookie

\* GET /auth/login in the browser: the state and the PKCE verifier are set as
\* cookies of ten minutes, and the browser is sent to the provider
LoginRedirect(k, domain) ==
    /\ Quiet
    /\ clientId # <<>>
    /\ Len(spent) < MaxHandshakes
    /\ IF held = NoHeld THEN TRUE
       ELSE held.domain = domain /\ held.state # Txt(StateOf(k))
    /\ \A i \in 1..Len(spent) : spent[i] # StateOf(k)
    /\ held' = [domain |-> domain, state |-> Txt(StateOf(k)), pkce |-> Txt(VerifierOf(k))]
    /\ UNCHANGED <<now, clientId, fs, COMICS_MAP, COMICS_CACHE, jar, last, probe, spent, events>>

\* the request, its response and what the provider answered
CallbackExchange(req, tokenRes, userRes, domain) ==
    [req |-> req, resp |-> HandleCallback(req, tokenRes, userRes, domain),
     handled |-> events.done, token |-> tokenRes, user |-> userRes]

\* the callback's response sets the session cookie
IssuesSession(resp) == \E i \in 1..Len(resp.cookies) : resp.cookies[i].name = SESSION_COOKIE

\* the state values accepted so far, with that of the request if it is accepted
SpentWith(req, resp) ==
    IF resp.status = 400 /\ resp.body = "Invalid state" THEN spent ELSE Append(spent, req.state.v)

\* the browser comes back to GET /auth/callback?code=..&state=.. with the
\* cookies it holds, and stores the cookies of the response
Callback(code, state, tokenRes, userRes) ==
    /\ Quiet
    /\ held # NoHeld
    /\ Len(spent) < MaxHandshakes
    /\ LET req == [route |-> "callback", code |-> code, state |-> state,
                   storedState |-> held.state, codeVerifier |-> held.pkce]
           x == CallbackExchange(req, tokenRes, userRes, held.domain)
       IN  /\ last' = x
           /\ jar' = IF IssuesSession(x.resp) THEN x.resp.cookies[3].value ELSE jar
           /\ held' = [held EXCEPT
                          !.state = Stored(@, STATE_COOKIE, held.domain, x.resp.cookies),
                          !.pkce = Stored(@, PKCE_COOKIE, held.domain, x.resp.cookies)]
           /\ spent' = SpentWith(req, x.resp)
    /\ UNCHANGED <<now, clientId, fs, COMICS_MAP, COMICS_CACHE, probe, events>>

\* a client sends the callback request it has just sent once more, unchanged
CallbackResend(tokenRes, userRes) ==
    /\ last # NoExchange /\ last.req.route = "callback"
    /\ held # NoHeld
    /\ Len(spent) < MaxHandshakes
    /\ LET x == CallbackExchange(last.req, tokenRes, userRes, held.domain)
       IN  /\ last' = x
           /\ jar' = IF IssuesSession(x.resp) THEN x.resp.cookies[3].value ELSE jar
           /\ spent' = SpentWith(last.req, x.resp)
    /\ UNCHANGED <<now, clientId, fs, COMICS_MAP, COMICS_CACHE, held, probe, events>>

\* query values of a callback: none, an empty one, and the values of the
\* handshakes
CallbackCodes == {Absent, Txt(<<"c">>)}
CallbackStates == {Absent, Txt(<<>>)} \cup {Txt(StateOf(k)) : k \in 1..MaxHandshakes}

InitOidc == Init /\ clientId # <<>> /\ jar = NoCookie /\ fs[NameA] = NoEntry

NextOidc ==
    \/ \E k \in 1..MaxHandshakes, d \in CookieDomains : LoginRedirect(k, d)
    \/ Quiet /\ \E c \in CallbackCodes, st \in CallbackStates, t, u \in ProviderAnswers :
          Callback(c, st, t, u)
    \/ \E t, u \in ProviderAnswers : CallbackResend(t, u)
    \/ Tick(GateTimes)
    \/ Done

SpecOidc == InitOidc /\ [][NextOidc]_vars

---------------------------------------------------------------------------
(* The worker pool of warmup.js: CONFIG.concurrency calls of worker() share
   `index` and run on one JavaScript thread, so a worker runs from one await to
   the next without another one in between.  The pool is held in `probe`:
   queue is queue.length, pc maps each worker to where it stands, item to the
   queue index it is fetching, fetched counts the fetches of each queue item
   and by names the worker of the last one. *)

\* longest queue and largest CONFIG.concurrency
MaxQueue == 3
MaxWorkers == 2

\* let index = 0; let completed = 0; let errors = 0; no worker called yet
PoolStart(n, c) ==
    [fn |-> "warmup", queue |-> n, concurrency |-> c, index |-> 0, completed |-> 0,
     errors |-> 0, pc |-> [w \in 1..c |-> "new"], item |-> [w \in 1..c |-> 0],
     fetched |-> [i \in 1..n |-> 0], by |-> [i \in 1..n |-> 0], complete |-> FALSE]

\* the worker is at the head of its while loop; worker() is called for the
\* workers one after the other, each running up to its first await
AtLoopHead(w) ==
    /\ probe.fn = "warmup" /\ w \in DOMAIN probe.pc
    /\ \/ probe.pc[w] = "loop"
       \/ probe.pc[w] = "new" /\ \A v \in 1..(w - 1) : probe.pc[v] # "new"

\* a worker that leaves the shared index alone while another fetch is in flight
WorkerTakeIdle(w) ==
    /\ AtLoopHead(w)
    /\ probe.index < probe.queue
    /\ probe' = [probe EXCEPT
                    !.index = IF \E v \in DOMAIN probe.pc : probe.pc[v] = "fetch" THEN @ ELSE @ + 1,
                    !.pc[w] = "fetch",
                    !.item[w] = probe.index + 1,
                    !.fetched[probe.index + 1] = @ + 1,
                    !.by[probe.index + 1] = w]
    /\ UNCHANGED <<now, clientId, fs, COMICS_MAP, COMICS_CACHE, jar, held, last, spent, events>>

\* while (index < queue.length) { const item = queue[index++]; fetch(item.url)
WorkerTake(w) ==
    /\ AtLoopHead(w)
    /\ probe.index < probe.queue
    /\ probe' = [probe EXCEPT
                    !.index = @ + 1,
                    !.pc[w] = "fetch",
                    !.item[w] = probe.index + 1,
                    !.fetched[probe.index + 1] = @ + 1,
                    !.by[probe.index + 1] = w]
    /\ UNCHANGED <<now, clientId, fs, COMICS_MAP, COMICS_CACHE, jar, held, last, spent, events>>

\* the loop condition fails: the worker's promise resolves
WorkerExit(w) ==
    /\ AtLoopHead(w)
    /\ probe.index >= probe.queue
    /\ probe' = [probe EXCEPT !.pc[w] = "done"]
    /\ UNCHANGED <<now, clientId, fs, COMICS_MAP, COMICS_CACHE, jar, held, last, spent, events>>

\* the fetch and the reading of the body settle: on a failure catch counts an
\* error; completed++ either way, and back to the head of the loop
FetchSettles(w, ok) ==
    /\ probe.fn = "warmup" /\ w \in DOMAIN probe.pc
    /\ probe.pc[w] = "fetch"
    /\ probe' = [probe EXCEPT
                    !.errors = IF ok THEN @ ELSE @ + 1,
                    !.completed = @ + 1,
                    !.pc[w] = "loop"]
    /\ UNCHANGED <<now, clientId, fs, COMICS_MAP, COMICS_CACHE, jar, held, last, spent, events>>

\* await Promise.all(workers) resolves
PoolComplete ==
    /\ probe.fn = "warmup" /\ ~probe.complete
    /\ \A w \in DOMAIN probe.pc : probe.pc[w] = "done"
    /\ probe' = [probe EXCEPT !.complete = TRUE]
    /\ UNCHANGED <<now, clientId, fs, COMICS_MAP, COMICS_CACHE, jar, held, last, spent, events>>

InitWarm ==
    /\ now = 0
    /\ ServerIdle
    /\ held = NoHeld
    /\ probe \in {PoolStart(n, c) : n \in 0..MaxQueue, c \in 1..MaxWorkers}

NextWarm ==
    \/ \E w \in 1..MaxWorkers : WorkerTake(w)
    \/ \E w \in 1..MaxWorkers : WorkerExit(w)
    \/ \E w \in 1..MaxWorkers, ok \in BOOLEAN : FetchSettles(w, ok)
    \/ PoolComplete

\* the event loop runs every continuation that is ready, and every fetch
\* settles
SpecWarm == InitWarm /\ [][NextWarm]_vars /\ WF_vars(NextWarm)

---------------------------------------------------------------------------
(* The reader page of the frontend: Reader's currentPage, isTransitioning and
   the callbacks it hands to setTimeout.  The reader is held in `probe`: comic
   says whether the page list has arrived, timers lists the pending callbacks in
   the order they were set, saved is the localStorage item tachyon-progress-id.
   React renders again after every event and every callback, so a handler sees
   the state of its time; a callback set with p => p + 1 works on the state of
   the time it runs. *)

\* most pages of a comic and most callbacks pending at a time
MaxPages == 3
MaxTimers == 2

NoSaved == -1

\* useState(null), useState(0), useState(false): the reader before its page
\* list has arrived, with the progress an earlier visit has saved
ReaderStart(saved) ==
    [fn |-> "reader", comic |-> FALSE, pageCount |-> 0, currentPage |-> 0,
     isTransitioning |-> FALSE, timers |-> <<>>, saved |-> saved]

\* fetchPages(id).then: setComic(data), and the saved page is restored if it is
\* a number below data.pageCount; the save effect then writes currentPage
ReaderLoad(n) ==
    /\ probe.fn = "reader" /\ ~probe.comic
    /\ LET page == IF probe.saved # NoSaved /\ probe.saved < n THEN probe.saved
                   ELSE probe.currentPage
       IN  probe' = [probe EXCEPT !.comic = TRUE, !.pageCount = n,
                                  !.currentPage = page, !.saved = page]
    /\ UNCHANGED <<now, clientId, fs, COMICS_MAP, COMICS_CACHE, jar, held, last, spent, events>>

\* setTimeout(callback, delay)
SetTimer(kind, page, delay) ==
    /\ Len(probe.timers) < MaxTimers
    /\ probe' = [probe EXCEPT !.isTransitioning = TRUE,
                              !.timers = Append(@, [kind |-> kind, page |-> page, delay |-> delay])]
    /\ UNCHANGED <<now, clientId, fs, COMICS_MAP, COMICS_CACHE, jar, held, last, spent, events>>

\* goNext()
goNext ==
    /\ probe.fn = "reader"
    /\ probe.comic /\ probe.currentPage < probe.pageCount - 1 /\ ~probe.isTransitioning
    /\ SetTimer("next", 0, 150)

\* goPrev()
goPrev ==
    /\ probe.fn = "reader"
    /\ probe.currentPage > 0 /\ ~probe.isTransitioning
    /\ SetTimer("prev", 0, 150)

\* goToPage(page)
goToPage(page) ==
    /\ probe.fn = "reader"
    /\ page >= 0 /\ page < probe.pageCount /\ page # probe.currentPage
    /\ SetTimer("goto", page, 100)

\* a pending callback is due before another one if it was set earlier with a
\* delay that is not longer
DueFirst(i) ==
    \A j \in 1..(i - 1) : probe.timers[j].delay > probe.timers[i].delay

\* the callback of a timer runs: setCurrentPage(p => p + 1), (p => p - 1) or
\* (page), setIsTransitioning(false); the save effect writes currentPage
TimerFires(i) ==
    /\ probe.fn = "reader"
    /\ i \in 1..Len(probe.timers) /\ DueFirst(i)
    /\ LET t == probe.timers[i]
           page == IF t.kind = "next" THEN probe.currentPage + 1
                   ELSE IF t.kind = "prev" THEN probe.currentPage - 1
                   ELSE t.page
       IN  probe' = [probe EXCEPT
                        !.currentPage = page,
                        !.saved = page,
                        !.isTransitioning = FALSE,
                        !.timers = SubSeq(@, 1, i - 1) \o SubSeq(@, i + 1, Len(@))]
    /\ UNCHANGED <<now, clientId, fs, COMICS_MAP, COMICS_CACHE, jar, held, last, spent, events>>

InitReader ==
    /\ now = 0
    /\ ServerIdle
    /\ held = NoHeld
    /\ probe \in {ReaderStart(saved) : saved \in NoSaved..(MaxPages - 1)}

NextReader ==
    \/ \E n \in 1..MaxPages : ReaderLoad(n)
    \/ goNext
    \/ goPrev
    \/ \E page \in 0..(MaxPages - 1) : goToPage(page)
    \/ \E i \in 1..MaxTimers : TimerFires(i)

SpecReader == InitReader /\ [][NextReader]_vars

---------------------------------------------------------------------------
(* A folder is made and filled while the server runs.  chokidar holds back, by
   awaitWriteFinish, the add and change events of files only; addDir is emitted
   when the folder is seen, and with depth 0 nothing is reported for the files
   written into it later.  Files are only added here.  The event loop runs
   every handler that is due. *)

InitFill == InitLive

NextFill ==
    \/ \E n \in DiskNames, k \in 0..MaxImages : Mkdir(n, k)
    \/ \E n \in DiskNames : Rmdir(n)
    \/ \E n \in DiskNames, k \in 0..MaxImages : k > fs[n] /\ TouchImages(n, k)
    \/ WatcherEvent

SpecFill == InitFill /\ [][NextFill]_vars /\ WF_vars(WatcherEvent)

---------------------------------------------------------------------------
(* Claims about the capability functions (under SpecSig) *)

Verifying == probe.fn \in {"verifySignedUrl", "verifySignedCoverUrl"}

\* the call presents the issued pair for the resource it was issued for
SameResource ==
    \/ /\ held.url.kind = "page" /\ probe.fn = "verifySignedUrl"
       /\ probe.id = held.url.id /\ NumStr(probe.page) = held.url.page
    \/ /\ held.url.kind = "cover" /\ probe.fn = "verifySignedCoverUrl"
       /\ probe.id = held.url.id

\* the issued expiry E
Expiry == held.at + UrlTtl

\* C2: a signature issued for one resource validates for no other: a call that
\* presents an issued sig returns true only for the function, comic id and page
\* index the sig was issued for, whatever id and expires string the caller picks.
C2_SigBoundToResource ==
    (Verifying /\ probe.sig = held.url.sig /\ probe.result) => SameResource

\* C2 witness: an issued, unexpired sig was presented for another comic id
C2_Witness ==
    /\ Verifying /\ probe.sig = held.url.sig /\ probe.expires = held.url.expires
    /\ probe.id # held.url.id /\ held.url.id = IdA0 /\ now <= Expiry
    /\ ~probe.result

\* verification of the held URL exactly as issued, at the current time
VerifyHeld ==
    IF held.url.kind = "page"
    THEN verifySignedUrl(held.url.id, parseInt(held.url.page).val,
                         held.url.expires, held.url.sig)
    ELSE verifySignedCoverUrl(held.url.id, held.url.expires, held.url.sig)

\* C3: the issued pair verifies at every clock second now <= E and fails at every
\* now > E (now is the whole epoch second, Math.floor(Date.now() / 1000)): both
\* for the call that was made and for a call at any reachable time.  The clock
\* only moves forward, so a pair that has failed by expiry fails ever after.
C3_ValidUntilExpiry ==
    /\ (Verifying /\ SameResource /\ probe.expires = held.url.expires
           /\ probe.sig = held.url.sig)
       => (probe.result <=> now <= Expiry)
    /\ held # NoHeld => (VerifyHeld <=> now <= Expiry)

\* C3 witness: the issued pair was verified at the deadline second and accepted
C3_Witness ==
    /\ Verifying /\ SameResource /\ probe.expires = held.url.expires
    /\ probe.sig = held.url.sig /\ now = Expiry /\ probe.result

\* C4 (as claimed): a presented expires or sig that differs from the issued
\* string makes verification return false, and an expires string that is not a
\* plain decimal integer is rejected.
C4_TamperRejected ==
    (Verifying /\ SameResource
        /\ (probe.expires # held.url.expires \/ probe.sig # held.url.sig))
    => ~probe.result

---------------------------------------------------------------------------
(* Claims about the session codec (under SpecSession) *)

SessionCall == probe.fn = "verifySessionToken"

\* exactly one encoded payload, one delimiter and one signature
WellFormedToken(token) == Len(token) = 2 /\ Truthy(token[1]) /\ Truthy(token[2])

\* C9 (as claimed): a token that is structurally malformed, whose signature does
\* not match its payload, whose payload does not decode, or that is expired, is
\* answered null.
C9_FailsClosed ==
    (SessionCall /\ (\/ ~WellFormedToken(probe.token)
                     \/ probe.token # held.token
                     \/ held.data["expiresAt"] < now))
    => probe.result.null

\* C10: the token issued for s redeems to a record equal to s while
\* s.expiresAt >= now, and to null once s.expiresAt < now.
C10_SessionRoundTrip ==
    (SessionCall /\ probe.token = held.token)
    => IF held.data["expiresAt"] >= now
       THEN probe.result = [null |-> FALSE, data |-> held.data]
       ELSE probe.result.null

\* C10 witness: a record with an undefined member redeemed in its last second
C10_Witness ==
    /\ SessionCall /\ probe.token = held.token
    /\ held.data["expiresAt"] = now /\ "email" \notin DOMAIN held.data
    /\ probe.result = [null |-> FALSE, data |-> held.data]

---------------------------------------------------------------------------
(* Claims about the comic routes (under Spec) *)

Answered == last # NoExchange
ImageRoute == last.req.route \in {"cover", "page"}
Streams == last.resp.kind \in {"image", "notmodified"}
Anonymous == ~HasSession(last.req.cookie)

\* the request's expires and sig verify for exactly the id and page of its path
CapabilityValid ==
    IF last.req.route = "cover"
    THEN verifySignedCoverUrl(last.req.id, last.req.expires, last.req.sig)
    ELSE /\ ~parseInt(last.req.page).nan
         /\ verifySignedUrl(last.req.id, parseInt(last.req.page).val,
                            last.req.expires, last.req.sig)

\* C1: with auth configured, a cover or page request is answered with the image
\* or a 304 only if its cookie is a session verifySessionToken accepts, or its
\* expires and sig verify for exactly the id and page index of its path; every
\* other request is denied (400, 401 or 403) before anything is looked up.
C1_ImageNeedsSessionOrCapability ==
    (Answered /\ clientId # <<>> /\ ImageRoute /\ Anonymous /\ ~CapabilityValid)
    => (~Streams /\ last.resp.kind = "error" /\ last.resp.status \in {400, 401, 403})

\* C1 witness: the URL kept for one page was presented, unexpired and without a
\* session, for another page that exists, and was refused
C1_Witness ==
    /\ Answered /\ last.req.route = "page" /\ Anonymous
    /\ held.url.kind = "page" /\ last.req.id = held.url.id
    /\ last.req.page # held.url.page /\ ~parseInt(last.req.page).nan
    /\ parseInt(last.req.page).val < fs[NameA]
    /\ last.req.expires = held.url.expires /\ last.req.sig = held.url.sig
    /\ now <= held.at + UrlTtl
    /\ last.resp.status = 403

\* C5: a request to GET /api/comics or GET /api/comics/:id/pages without a valid
\* session cookie is answered 401 and gets no listing, whatever expires and sig
\* it carries.
C5_EnumerationNeedsSession ==
    (Answered /\ clientId # <<>> /\ last.req.route \in {"list", "pages"} /\ Anonymous)
    => (last.resp.status = 401 /\ last.resp.kind = "error")

\* C5 witness: a page-list request whose path contains "/cover", carrying an
\* unexpired kept pair, got past the middleware and was refused by the handler
C5_Witness ==
    /\ Answered /\ last.req.route = "pages" /\ last.req.id = IdCoverA /\ Anonymous
    /\ held # NoHeld /\ now <= held.at + UrlTtl
    /\ last.req.expires = held.url.expires /\ last.req.sig = held.url.sig
    /\ Middleware(last.req).pass
    /\ last.resp.status = 401

\* C6: a request to GET /api/comics/:id without a valid session cookie never gets
\* the comic's metadata record, whatever id and query parameters it carries.
C6_MetadataNeedsSession ==
    (Answered /\ last.req.route = "meta" /\ Anonymous) => last.resp.kind # "meta"

\* C6 witness: a metadata request for an id that begins with "cover", carrying
\* expires and sig, got past the middleware and found no comic
C6_Witness ==
    /\ Answered /\ last.req.route = "meta" /\ last.req.id = IdCoverA /\ Anonymous
    /\ Truthy(last.req.expires) /\ Truthy(last.req.sig)
    /\ Middleware(last.req).pass
    /\ last.resp.status = 404

\* the request is the kept URL as issued, with no cookie and no If-None-Match
RedeemsHeld ==
    /\ Answered /\ held # NoHeld
    /\ last.req.route = held.url.kind /\ last.req.id = held.url.id
    /\ (held.url.kind = "page" => last.req.page = held.url.page)
    /\ last.req.expires = held.url.expires /\ last.req.sig = held.url.sig
    /\ last.req.cookie = NoCookie /\ ~last.req.inm

\* C7: a page URL returned by GET /api/comics/:id/pages, or a cover URL of the
\* index, requested as issued with no session cookie at a time not after its
\* expiry (the comic's files being as they were) is answered 200 with the image.
C7_IssueRedeemRoundTrip ==
    (RedeemsHeld /\ now <= parseIntOf(held.url.expires).val)
    => (last.resp.status = 200 /\ last.resp.kind = "image")

\* C7 witness: a kept page URL was redeemed without a cookie after the session
\* that issued it had expired
C7_Witness ==
    /\ RedeemsHeld /\ held.url.kind = "page"
    /\ now > held.at + SessionTtl /\ now <= parseIntOf(held.url.expires).val
    /\ last.resp.status = 200

\* the page index of a page request is a non-negative number
PageIndexValid ==
    last.req.route = "page" => (~parseInt(last.req.page).nan /\ parseInt(last.req.page).val >= 0)

---------------------------------------------------------------------------
(* Claims about sessions and configuration (under SpecAuth and Spec) *)

\* C11 (as claimed): once a logout has completed for a session, a request that
\* presents that session's token is treated as having no session, so the comic
\* list answers 401, until a new login; the token's expiresAt does not matter.
C11_LogoutInvalidates ==
    (Answered /\ clientId # <<>> /\ spent # NoCookie /\ jar = NoCookie
        /\ last.req.cookie = spent /\ last.req.route = "list")
    => last.resp.status = 401

C13_OpenEndpoints ==
    (Answered /\ last.req.route \in {"health", "config"}
        /\ last.req.cookie = NoCookie /\ last.req.expires = Absent /\ last.req.sig = Absent)
    => (last.resp.status = 200 /\ last.resp.kind = "status")

---------------------------------------------------------------------------
(* Claims about paths (under Spec) *)

\* the file lies in the COMICS_DIR directory tree
InsideComicsDir(file) == file[1] \in DOMAIN fs

\* the path lies in the directory tree of dir
InTree(path, dir) == Len(path) >= Len(dir) /\ SubSeq(path, 1, Len(dir)) = dir

\* C14 (as claimed): the folder a page request reads from,
\* resolve(join(COMICS_DIR, decodeId(id))), lies inside the COMICS_DIR tree: an id
\* whose decoded name resolves outside it, a sibling directory whose name begins
\* with the same characters included, is rejected, and no file outside
\* COMICS_DIR is streamed.
C14_PathConfined ==
    /\ (Answered /\ Streams) => InsideComicsDir(last.resp.body)
    /\ (Answered /\ last.req.route = "page" /\ last.resp.status \notin {400, 401, 403, 500})
       => InTree(ResolveJoin(COMICS_DIR, decodeId(last.req.id)), COMICS_DIR)

---------------------------------------------------------------------------
(* Claims about identifiers (under SpecId) *)

\* C15: decodeId(encodeId(n)) = n for every folder name n, and two distinct
\* folder names never get the same id.
C15_IdRoundTrip ==
    /\ probe.fn = "decodeId" => probe.back = probe.name
    /\ (probe.fn = "encodeId" /\ probe.a # probe.b) => probe.ida # probe.idb

\* C15 witness: a name of a two-byte character and a dot came back as it was
C15_Witness ==
    /\ probe.fn = "decodeId" /\ probe.name = <<195, 169, Dot>>
    /\ probe.back = probe.name

---------------------------------------------------------------------------
(* Claims about the directory index (under SpecScan) *)

\* the index has a record with this id, in the map or in the sorted array
InMap(id) == \E i \in 1..Len(COMICS_MAP) : COMICS_MAP[i].id = id
InCache(id) == \E i \in 1..Len(COMICS_CACHE) : COMICS_CACHE[i].id = id

\* C16 (as claimed): after the startup scan, and before any folder changes,
\* getComic(encodeId(name)) is a record with pageCount = the number of image
\* files for every folder of the root that holds at least one image, and
\* undefined for every folder without images and every entry that is no folder.
C16_FullScanIndexes ==
    events.log = <<>> =>
        \A n \in DOMAIN fs :
            LET got == getComic(encodeId(Utf8Decode(n)))
            IN  IF fs[n] >= 1 THEN got.found /\ got.comic.pageCount = fs[n]
                ELSE ~got.found

\* the handled events that name the folder
EventsOf(name) == {i \in 1..events.done : events.log[i][2] = name}

\* the last handled event that names the folder is a removal
RemovedLast(name) ==
    /\ EventsOf(name) # {}
    /\ events.log[CHOOSE i \in EventsOf(name) : \A j \in EventsOf(name) : j <= i][1] = "unlinkDir"

\* C17: from the handling of a remove event for a top-level folder until the
\* handling of a later add event for the same name, getComic(encodeId(name)) is
\* undefined and the sorted array does not contain that comic.
C17_RemovedStaysAbsent ==
    \A n \in DOMAIN fs :
        RemovedLast(Utf8Decode(n))
        => (~getComic(encodeId(Utf8Decode(n))).found /\ ~InCache(encodeId(Utf8Decode(n))))

\* C17 witness: folder "a", indexed by the startup scan, was removed and the
\* event handled, while the other comics stayed in the index
C17_Witness ==
    /\ events.done = 1 /\ events.log[1] = <<"unlinkDir", NameA>>
    /\ ~InMap(encodeId(NameA)) /\ ~InCache(encodeId(NameA))
    /\ InCache(encodeId(Name10)) /\ Len(COMICS_CACHE) >= 2

\* C18: whenever a handler can look at the index, COMICS_CACHE holds exactly the
\* records of COMICS_MAP, each once, in non-decreasing natural order of name.
C18_IndexCoherent ==
    /\ Len(COMICS_CACHE) = Len(COMICS_MAP)
    /\ \A i \in 1..Len(COMICS_MAP) :
          Cardinality({j \in 1..Len(COMICS_CACHE) : COMICS_CACHE[j] = COMICS_MAP[i]}) = 1
    /\ \A i, j \in 1..Len(COMICS_CACHE) :
          i < j => naturalSort(COMICS_CACHE[i].name, COMICS_CACHE[j].name) <= 0

\* C18 witness: after an add event was handled the array holds "9" before "10"
\* and a third comic
C18_Witness ==
    /\ events.done >= 1 /\ events.log[events.done][1] = "addDir"
    /\ Len(COMICS_CACHE) >= 3
    /\ \E i, j \in 1..Len(COMICS_CACHE) :
          i < j /\ COMICS_CACHE[i].name = Name9 /\ COMICS_CACHE[j].name = Name10

\* C19 (as claimed): the sorted array is a function of the set of records in the
\* map alone: whatever order a history of scans, adds and removes has put the
\* same records into the map in, sorting gives the array the index has.
C19_OrderDeterministic ==
    \A o \in Orders({COMICS_MAP[i] : i \in 1..Len(COMICS_MAP)}) :
        updateCacheArray(o) = COMICS_CACHE

---------------------------------------------------------------------------
(* Claims about pagination (under SpecPage) *)

\* the elements of the sorted array at positions (p-1)*s up to, not including, p*s
PageOf(p, s) ==
    [k \in 1..(IF Len(COMICS_CACHE) - (p - 1) * s < 0 THEN 0
               ELSE IF Len(COMICS_CACHE) - (p - 1) * s < s THEN Len(COMICS_CACHE) - (p - 1) * s
               ELSE s)
       |-> COMICS_CACHE[(p - 1) * s + k]]

\* ceil(total / s): the least m with m * s >= total
Ceil(total, s) == CHOOSE m \in 0..total : m * s >= total /\ \A n \in 0..total : n * s >= total => m <= n

\* the pages 1..m of getComics, one after the other
RECURSIVE PagesUpTo(_, _)
PagesUpTo(m, s) == IF m = 0 THEN <<>> ELSE PagesUpTo(m - 1, s) \o getComics(m, s).comics

\* the page number and page size a list request asks for
AskedPage == parseInt(QueryOr(probe.qpage, DefaultPage))
AskedLimit == parseInt(QueryOr(probe.qlimit, DefaultLimit))

\* C20: for p >= 1 and s >= 1, getComics(p, s) is the slice of the sorted array
\* from position (p-1)*s up to, not including, p*s, with total = its length; the
\* pages 1..ceil(total/s) one after the other are the whole array; and the list
\* route answers that slice with totalPages = ceil(total / s).
C20_Pagination ==
    /\ probe.fn = "getComics" =>
          /\ probe.result.comics = PageOf(probe.page, probe.limit)
          /\ probe.result.total = Len(COMICS_CACHE)
          /\ PagesUpTo(Ceil(Len(COMICS_CACHE), probe.limit), probe.limit) = COMICS_CACHE
    /\ (probe.fn = "HandleList" /\ ~AskedPage.nan /\ AskedPage.val >= 1
            /\ ~AskedLimit.nan /\ AskedLimit.val >= 1) =>
          /\ probe.result.body.comics = PageOf(AskedPage.val, AskedLimit.val)
          /\ probe.result.body.count = Len(COMICS_CACHE)
          /\ probe.result.body.page = Num(AskedPage.val)
          /\ probe.result.body.totalPages = Num(Ceil(Len(COMICS_CACHE), AskedLimit.val))

\* C20 witness: page 2 of size 2 of three comics is the third comic alone
C20_Witness ==
    /\ probe.fn = "getComics" /\ probe.page = 2 /\ probe.limit = 2
    /\ Len(COMICS_CACHE) = 3
    /\ probe.result.comics = <<COMICS_CACHE[3]>> /\ probe.result.total = 3

---------------------------------------------------------------------------
(* Claims about the page resolver (under SpecTree) *)

\* the index-to-file mapping of a result
PageMapping(pages) == [i \in 1..Len(pages) |-> pages[i].relativePath]

\* the indices of a result are 0..n-1 in order
IndicesDense(pages) == \A i \in 1..Len(pages) : pages[i].index = i - 1

\* C21: for the same set of files under a comic folder, getComicPages gives the
\* same index-to-file mapping whatever the order in which the filesystem
\* enumerates the entries, also when two paths compare equal under naturalSort;
\* the indices are exactly 0..n-1.
C21_PageOrderDeterministic ==
    probe.fn = "getComicPagesTwice" =>
        /\ PageMapping(probe.result) = PageMapping(probe.again)
        /\ IndicesDense(probe.result) /\ IndicesDense(probe.again)

\* p and q are the same but for one embedded number, and that of p is smaller
NumberLess(p, q) ==
    \E k \in 0..Len(p) :
        /\ k <= Len(q) /\ SubSeq(p, 1, k) = SubSeq(q, 1, k)
        /\ k > 0 => ~IsDigitByte(p[k])
        /\ LET dp == DigitBytes(SubSeq(p, k + 1, Len(p)))
               dq == DigitBytes(SubSeq(q, k + 1, Len(q)))
           IN  /\ dp # <<>> /\ dq # <<>>
               /\ SubSeq(p, k + Len(dp) + 1, Len(p)) = SubSeq(q, k + Len(dq) + 1, Len(q))
               /\ BytesVal(dp) < BytesVal(dq)

\* the extension of a file name, in lower case, read off its last four bytes
LowerTail(name) ==
    IF Len(name) < 4 THEN <<>>
    ELSE [i \in 1..4 |-> LET b == name[Len(name) - 4 + i]
                         IN  IF b >= 65 /\ b <= 90 THEN b + 32 ELSE b]

\* C22: getComicPages orders pages by relative path with numbers compared by
\* value: of two paths that differ only in an embedded number, the one with the
\* smaller number has the smaller index; and only regular files whose extension
\* is in the image allow-list appear.
C22_NaturalPageOrder ==
    probe.fn \in {"getComicPages", "getComicPagesTwice"} =>
        /\ \A i, j \in 1..Len(probe.result) :
              NumberLess(probe.result[i].relativePath, probe.result[j].relativePath)
                 => probe.result[i].index < probe.result[j].index
        /\ \A i \in 1..Len(probe.result) :
              /\ LowerTail(probe.result[i].filename) = ExtJpg
              /\ probe.result[i].relativePath = probe.result[i].filename
                    => \E k \in 1..Len(probe.dir.entries) :
                          /\ probe.dir.entries[k].name = probe.result[i].filename
                          /\ probe.dir.entries[k].kind = "file"

\* C22 witness: a folder enumerated as 1.jpg, 10.jpg, 2.jpg next to a text file
\* is resolved to 1.jpg, 2.jpg, 10.jpg
C22_Witness ==
    /\ probe.fn = "getComicPages"
    /\ Len(probe.dir.entries) = 3
    /\ probe.dir.entries[1].name = <<49>> \o ExtJpg
    /\ probe.dir.entries[2].name = <<49, 48>> \o ExtJpg
    /\ probe.dir.entries[3].name = <<50>> \o ExtJpg
    /\ PageMapping(probe.result) = <<(<<49>> \o ExtJpg), (<<50>> \o ExtJpg), (<<49, 48>> \o ExtJpg)>>

---------------------------------------------------------------------------
(* Claims about the watcher's events (under SpecScan) *)

\* every event the watcher has reported has been handled
AllHandled == events.done = Len(events.log)

\* the last handled event that names the folder is an addition
AddedLast(name) ==
    /\ EventsOf(name) # {}
    /\ events.log[CHOOSE i \in EventsOf(name) : \A j \in EventsOf(name) : j <= i][1] = "addDir"

\* C23: add and remove events for one top-level folder name are applied in the
\* order they arrive, each as a whole; once all are applied the entry is absent
\* if the last event was a remove, and present, with the record of a fresh scan,
\* if the last was an add of a folder that holds images.
C23_LastEventWins ==
    AllHandled =>
        \A n \in DOMAIN fs :
            LET got == getComic(encodeId(Utf8Decode(n)))
            IN  /\ RemovedLast(Utf8Decode(n)) => ~got.found
                /\ (AddedLast(Utf8Decode(n)) /\ fs[n] >= 1)
                      => (got.found /\ got.comic.pageCount = fs[n])

---------------------------------------------------------------------------
(* Claims about the running server (under SpecLive) *)

\* C24: pageCount is a snapshot: while no add or remove event for a top-level
\* folder is handled, image files coming and going inside a folder that is in the
\* index leave its record (pageCount, cover) and the whole index as they were.
C24_PageCountSnapshot ==
    [][(fs' # fs /\ events'.done = events.done)
          => (COMICS_MAP' = COMICS_MAP /\ COMICS_CACHE' = COMICS_CACHE)]_vars

\* C24 witness: folder "a" is in the index with the page count of its scan while
\* it now holds another number of images
C24_Witness ==
    /\ fs[NameA] >= 0
    /\ getComic(IdOfA).found
    /\ getComic(IdOfA).comic.pageCount # fs[NameA]
    /\ InCache(IdOfA)

\* C29: handling a request (list, metadata, cover, page list, page image), a
\* login or a logout leaves COMICS_MAP and COMICS_CACHE unchanged; they change
\* only when the watcher's add or remove handler runs.
C29_ReadersLeaveIndex ==
    [][/\ (last' # last \/ probe' # probe \/ jar' # jar)
             => (COMICS_MAP' = COMICS_MAP /\ COMICS_CACHE' = COMICS_CACHE)
       /\ (COMICS_MAP' # COMICS_MAP \/ COMICS_CACHE' # COMICS_CACHE)
             => events'.done = events.done + 1]_vars

\* C29 witness: a page list read from the disk was served with another page
\* count than the one the index still records for the comic
C29_Witness ==
    /\ Answered /\ last.resp.status = 200 /\ last.resp.kind = "pages"
    /\ last.req.id = IdOfA
    /\ getComic(IdOfA).comic.pageCount # last.resp.body.pageCount

---------------------------------------------------------------------------
(* Claims about the records of the index (under SpecScan) *)

\* a record as scanSingleComic makes it: at least one page, the id of its name,
\* and a cover URL signed for that id and the resource "cover"
WholeRecord(rec) ==
    /\ rec.pageCount >= 1
    /\ rec.id = encodeId(rec.name)
    /\ rec.cover.kind = "cover" /\ rec.cover.id = rec.id
    /\ ~parseIntOf(rec.cover.expires).nan
    /\ rec.cover.sig = generateSignature(rec.id \o Colon \o CoverWord \o Colon
                                         \o rec.cover.expires.v)

\* C25: every record that getComic or getComics can return has pageCount >= 1,
\* id = encodeId(name), sits in the map under its id, and carries a cover URL
\* whose signature was issued for that id and the resource key "cover"; no two
\* records are for the same folder name.
C25_NoPartialRecords ==
    /\ \A i \in 1..Len(COMICS_MAP) :
          /\ WholeRecord(COMICS_MAP[i])
          /\ getComic(COMICS_MAP[i].id).comic = COMICS_MAP[i]
          /\ \A j \in 1..Len(COMICS_MAP) : COMICS_MAP[j].name = COMICS_MAP[i].name => j = i
    /\ \A i \in 1..Len(COMICS_CACHE) :
          /\ WholeRecord(COMICS_CACHE[i])
          /\ \A j \in 1..Len(COMICS_CACHE) : COMICS_CACHE[j].name = COMICS_CACHE[i].name => j = i
    /\ \A p, l \in 1..MaxPageArg : \A i \in 1..Len(getComics(p, l).comics) :
          WholeRecord(getComics(p, l).comics[i])

\* C25 witness: folder "A", empty when the server started, was removed and came
\* back with one image; the add event was handled and its record is in the index
\* next to another comic's
C25_Witness ==
    /\ AllHandled /\ events.done = 2
    /\ events.log[2] = <<"addDir", NameUpperA>>
    /\ getComic(encodeId(NameUpperA)).found
    /\ getComic(encodeId(NameUpperA)).comic.pageCount = 1
    /\ Len(COMICS_MAP) >= 2

\* the request carries neither a session that verifies nor, on an image route,
\* expires and sig that verify for its id and page
Unauthorized(req) ==
    /\ ~HasSession(req.cookie)
    /\ req.route = "cover" => ~verifySignedCoverUrl(req.id, req.expires, req.sig)
    /\ req.route = "page" =>
          \/ parseInt(req.page).nan
          \/ ~verifySignedUrl(req.id, parseInt(req.page).val, req.expires, req.sig)

\* C26: a request to a comic-scoped route that has neither a valid session nor a
\* valid capability gets the same status and body whether or not the comic
\* folder or the page exists: sent again after folders and images have come or
\* gone, it is answered as before.
C26_DenialHidesExistence ==
    (/\ probe.fn = "replay"
     /\ probe.req.route \in {"meta", "cover", "pages", "page"}
     /\ Unauthorized(probe.req))
    => (probe.again.status = probe.first.status /\ probe.again.body = probe.first.body)

\* C26 witness: a cover request for comic "a" with made-up expires and sig was
\* refused by the handler while the folder was there, and again, in the same way,
\* after the folder's removal had been handled
C26_Witness ==
    /\ probe.fn = "replay" /\ probe.req.route = "cover" /\ probe.req.id = IdOfA
    /\ Truthy(probe.req.expires) /\ Truthy(probe.req.sig)
    /\ Unauthorized(probe.req)
    /\ probe.handled = 0 /\ events.done = 1 /\ events.log[1] = <<"unlinkDir", NameA>>
    /\ ~InMap(IdOfA)
    /\ probe.first.status = 403 /\ probe.again.status = 403

---------------------------------------------------------------------------
(* Claims about capabilities while the server runs (under SpecCap) *)

\* C27: whether a capability verifies depends on its resource key, expires, sig
\* and the current time alone: the URL issued verifies exactly until its expiry,
\* and a verification gives the same answer when repeated at the same time,
\* whatever folders were added, removed or dropped from the index, whoever logged
\* in or out, and whatever was requested in between.
C27_CapabilityStateless ==
    /\ held # NoHeld =>
          (IF held.url.kind = "cover"
           THEN verifySignedCoverUrl(held.url.id, held.url.expires, held.url.sig)
           ELSE verifySignedUrl(held.url.id, parseInt(held.url.page).val,
                                held.url.expires, held.url.sig))
          = (now <= held.at + UrlTtl)
    /\ probe.fn = "verifySignedUrl" =>
          verifySignedUrl(probe.id, probe.page, probe.expires, probe.sig) = probe.result
    /\ probe.fn = "verifySignedCoverUrl" =>
          verifySignedCoverUrl(probe.id, probe.expires, probe.sig) = probe.result

\* C27 witness: the cover URL of comic "a" verified, before its expiry, after the
\* comic's removal from the index had been handled and after a login and logout
C27_Witness ==
    /\ held.url.kind = "cover" /\ held.url.id = IdOfA
    /\ events.done >= 1 /\ ~InMap(IdOfA)
    /\ spent # NoCookie /\ jar = NoCookie
    /\ probe.fn = "verifySignedCoverUrl" /\ probe.sig = held.url.sig
    /\ probe.result

---------------------------------------------------------------------------
(* Claims about failing scans (under SpecTree) *)

\* the directory holds an image file that can be reached
HoldsImage(dir) ==
    /\ dir.ok
    /\ \E k \in 1..Len(dir.entries) :
          dir.entries[k].kind = "file" /\ LowerTail(dir.entries[k].name) = ExtJpg

\* C28: a directory that cannot be read makes getComicPages return the empty
\* sequence; a subdirectory that cannot be read does not take away the images
\* next to it; and in the startup scan a folder whose scan fails does not keep
\* the other folders from being indexed.
C28_ScanFailuresDegrade ==
    /\ (probe.fn = "getComicPages" /\ ~probe.dir.ok) => probe.result = <<>>
    /\ (probe.fn = "getComicPages" /\ probe.dir.ok) =>
          \A k \in 1..Len(probe.dir.entries) :
              (probe.dir.entries[k].kind = "file"
               /\ LowerTail(probe.dir.entries[k].name) = ExtJpg)
              => \E i \in 1..Len(probe.result) :
                    probe.result[i].relativePath = probe.dir.entries[k].name
    /\ (probe.fn = "initScanner" /\ probe.root.ok) =>
          \A k \in 1..Len(probe.root.entries) :
              (probe.root.entries[k].kind = "dir" /\ HoldsImage(probe.root.entries[k].sub))
              => \E i \in 1..Len(probe.result.map) :
                    /\ probe.result.map[i].name = probe.root.entries[k].name
                    /\ probe.result.map[i].pageCount >= 1
                    /\ \E j \in 1..Len(probe.result.cache) :
                          probe.result.cache[j] = probe.result.map[i]

\* C28 witness: the startup scan met folder "a", which cannot be read, before
\* folder "b", which holds 1.jpg next to a subdirectory that cannot be read, and
\* indexed "b" with one page
C28_Witness ==
    /\ probe.fn = "initScanner"
    /\ Len(probe.root.entries) = 2
    /\ probe.root.entries[1] = SubDir(<<97>>, Unreadable)
    /\ probe.root.entries[2] = SubDir(<<98>>, Dir(<<SubDir(<<115>>, Unreadable), File(<<49>> \o ExtJpg)>>))
    /\ Len(probe.result.map) = 1
    /\ probe.result.map[1].name = <<98>> /\ probe.result.map[1].pageCount = 1

---------------------------------------------------------------------------
(* Claims about response headers (under Spec) *)

\* C30: every response of GET /api/comics, GET /api/comics/:id and
\* GET /api/comics/:id/pages, for every id, carries Cache-Control: no-cache,
\* no-store, must-revalidate, and never the public immutable value of images.
C30_ListingsNotCached ==
    (Answered /\ last.req.route \in {"list", "meta", "pages"})
    => (last.resp.cache = CacheNone /\ last.resp.cache # CacheImmutable)

---------------------------------------------------------------------------
(* Claims about one add event (under SpecScan) *)

\* the step hands an addDir event for the folder name to its handler
AddApplied(name) ==
    /\ events.done < Len(events.log)
    /\ events'.done = events.done + 1
    /\ events.log[events.done + 1] = <<"addDir", name>>

\* C31: once the add event of a direct child folder of the root that holds at
\* least one image has been applied, getComic(encodeId(name)) returns a record
\* whose pageCount is the folder's image count at that moment and the sorted
\* array contains it, whatever the folder's name, the root's own base name
\* included; an add event for a folder without images leaves no record.
C31_AddEventIndexes ==
    [][\A n \in DOMAIN fs :
          AddApplied(Utf8Decode(n)) =>
              /\ fs[n] >= 1 => /\ (getComic(encodeId(Utf8Decode(n))))'.found
                               /\ (getComic(encodeId(Utf8Decode(n))))'.comic.pageCount = fs[n]
                               /\ (InCache(encodeId(Utf8Decode(n))))'
              /\ fs[n] = 0 => ~(getComic(encodeId(Utf8Decode(n))))'.found]_vars

---------------------------------------------------------------------------
(* Claims about a folder filled while the server runs (under SpecFill) *)

\* the watcher has reported the making of the folder
MadeLive(n) == \E i \in 1..Len(events.log) : events.log[i] = <<"addDir", Utf8Decode(n)>>

\* C32: a top-level folder made under the root while the server runs, then
\* filled with image files and never removed, is eventually in the index, without
\* a restart, with a record whose pageCount is its final image count.
C32_EventuallyIndexed ==
    \A k \in 1..MaxImages :
        <>[](MadeLive(NameA) /\ fs[NameA] = k)
            => <>[](/\ getComic(IdOfA).found
                    /\ getComic(IdOfA).comic.pageCount = k
                    /\ InCache(IdOfA))

---------------------------------------------------------------------------
(* Claims about the index and the image routes (under SpecLive) *)

\* the index is as it was when the last request was answered
IndexAsServed == last.handled = events.done

\* the streamed file lies in the folder of the record the index holds for the id
FromRecord(id, file) ==
    /\ getComic(id).found
    /\ Utf8Decode(file[1]) = getComic(id).comic.name

\* C33: the cover and page routes stream a file only for an id that getComic
\* finds in the index at that time, and the file lies in that record's own
\* folder.
C33_ServedOnlyIfIndexed ==
    (Answered /\ ImageRoute /\ Streams /\ IndexAsServed)
        => FromRecord(last.req.id, last.resp.body)

---------------------------------------------------------------------------
(* Claims about the cover URLs of the listing (under SpecCap) *)

\* C34: whenever GET /api/comics returns a record, the expires and sig of the
\* record's cover URL pass verifySignedCoverUrl for the record's id at that same
\* time, however long the process has been up.
C34_ListedCoverUsable ==
    (Answered /\ last.req.route = "list" /\ last.resp.status = 200)
        => \A i \in 1..Len(last.resp.body.comics) :
              LET rec == last.resp.body.comics[i]
              IN  verifySignedCoverUrl(rec.id, rec.cover.expires, rec.cover.sig)

---------------------------------------------------------------------------
(* Claims about the long-lived cache header (under Spec) *)

\* C35: a response carries Cache-Control: public, max-age=31536000, immutable
\* only if it is an authorized image response, 200 with the image or 304; a
\* 400, 401, 403, 404 or 500 response on a cover or page path does not carry it.
C35_ImmutableOnlyOnImages ==
    /\ (Answered /\ last.resp.cache = CacheImmutable) => Streams
    /\ (Answered /\ ImageRoute /\ last.resp.status \in {400, 401, 403, 404, 500})
          => last.resp.cache # CacheImmutable

---------------------------------------------------------------------------
(* Claims about a traversal of the listing (under SpecDiscover) *)

\* the traversal has read its last page
Traversed == probe # NoProbe /\ probe.fn = "discover" /\ ~probe.hasMore

\* the comics in the index from the start of the traversal until now: those it
\* held at the start for which no remove has been handled since
PresentThroughout ==
    {id \in probe.first :
        ~\E i \in (probe.from + 1)..events.done :
            /\ events.log[i][1] = "unlinkDir"
            /\ encodeId(events.log[i][2]) = id}

\* C36: a client that reads pages 1, 2, ..., totalPages of the listing with one
\* limit, while add and remove events are handled between its requests,
\* receives every comic that was in the index during the whole traversal at
\* least once, and receives no comic twice.
C36_TraversalComplete ==
    Traversed =>
        /\ PresentThroughout \subseteq IdsOf(probe.comics)
        /\ \A i, j \in 1..Len(probe.comics) :
              probe.comics[i].id = probe.comics[j].id => i = j

---------------------------------------------------------------------------
(* Claims about the OIDC callback (under SpecOidc) *)

\* the last exchange was a callback
CalledBack == last # NoExchange /\ last.req.route = "callback"

\* the callback's response deletes the cookie
Deletes(resp, name) == \E i \in 1..Len(resp.cookies) : resp.cookies[i] = deleteCookie(name)

\* the session cookie is set only for a state that equals the stored one, a
\* code, and a token and a userinfo answer that are ok; every other callback is
\* answered 400 or 500 without the provider's error body
IssuedOnlyWhenWhole ==
    CalledBack =>
        /\ IssuesSession(last.resp) =>
              /\ Truthy(last.req.state) /\ last.req.state = last.req.storedState
              /\ Truthy(last.req.code)
              /\ last.token.ok /\ last.user.ok
        /\ ~IssuesSession(last.resp) =>
              /\ last.resp.status \in {400, 500}
              /\ last.resp.body # ProviderError

\* every callback's response deletes the state and the PKCE cookie
ClearsHandshake ==
    CalledBack => (Deletes(last.resp, STATE_COOKIE) /\ Deletes(last.resp, PKCE_COOKIE))

\* a callback that sets the session cookie is the first to present its state
NeverReplayed ==
    (CalledBack /\ IssuesSession(last.resp))
        => \A i, j \in 1..Len(spent) :
              (spent[i] = last.req.state.v /\ spent[j] = last.req.state.v) => i = j

\* C37: the callback sets a session cookie only when the state parameter is
\* present and equals the stored state cookie, a code is present, and the token
\* exchange and the userinfo fetch succeed; otherwise it sets none and answers
\* 400 or 500 without the provider's error body; it deletes the state and PKCE
\* cookies every time, so that no handshake, completed or failed, is accepted
\* again with the same state.
C37_CallbackIssuesSession ==
    /\ IssuedOnlyWhenWhole
    /\ ClearsHandshake
    /\ NeverReplayed

---------------------------------------------------------------------------
(* Claims about the warmup worker pool (under SpecWarm) *)

\* the fetches in flight
InFlight == {w \in DOMAIN probe.pc : probe.pc[w] = "fetch"}

\* no queue item is fetched twice, no more fetches are in flight than there are
\* workers, and when the pool is done every item has been fetched once
PoolSafe ==
    /\ \A i \in DOMAIN probe.fetched : probe.fetched[i] <= 1
    /\ \A v, w \in InFlight : probe.item[v] = probe.item[w] => v = w
    /\ Cardinality(InFlight) <= probe.concurrency
    /\ probe.completed <= probe.queue
    /\ probe.complete =>
          /\ \A i \in DOMAIN probe.fetched : probe.fetched[i] = 1
          /\ probe.completed = probe.queue
          /\ probe.index = probe.queue

---------------------------------------------------------------------------
(* Claims about the reader (under SpecReader) *)

\* C39: once a comic with pageCount >= 1 is loaded, 0 <= currentPage <=
\* pageCount - 1 holds after any sequence of goNext, goPrev and goToPage calls,
\* the restoring of the progress and the timers' callbacks, in any order, and so
\* the saved progress names an existing page too.
C39_PageInRange ==
    (probe.fn = "reader" /\ probe.comic /\ probe.pageCount >= 1) =>
        /\ 0 <= probe.currentPage /\ probe.currentPage <= probe.pageCount - 1
        /\ 0 <= probe.saved /\ probe.saved <= probe.pageCount - 1

=============================================================================
